---------------------------- MODULE Spec2Model ----------------------------
(***************************************************************************)
(* dvc-fs: the Client of src/dvc_fs/client.py, its cached clone, the file  *)
(* handles it gives out and the update / remove protocol, over a Git       *)
(* remote and a blob remote.                                               *)
(*                                                                         *)
(* A file name is a sequence of tokens ("a" ".dvc" is the name a.dvc), a   *)
(* path is a sequence of names, a content is a sequence of characters.     *)
(* One action is one call of a public method; its remote calls are logged  *)
(* in last.calls in the order the code issues them.  The optional dvc.api  *)
(* binding is taken as not importable (client.py:211-214), so that         *)
(* dvc_open is dvc_open_clone.                                             *)
(***************************************************************************)
EXTENDS Integers, Sequences, FiniteSets, TLC

VARIABLES
    client,     \* the Client object: dvc_repo, temp_path, _repo_cache
    wc,         \* the working copy the cache points at (files, dirs)
    git,        \* the clone's Git index and HEAD trees
    remote,     \* the Git remote's tree and the blob remote's payloads
    handle,     \* the DVCFile a caller holds, if any
    last,       \* observation of the last call: arguments, outcome, calls
    hist,       \* bookkeeping: written paths, clone and fault counters
    other,      \* a second Client of the same repository and its clone
    fs          \* the DVCFS adapter (fs/dvcfs.py) over the Client, if made

vars == <<client, wc, git, remote, handle, last, hist, other, fs>>

None == "None"

----------------------------------------------------------------------------
(* Bounds of the model.                                                    *)

MaxBatch == 2       \* longest list given to update / remove / download
MaxClones == 2      \* successful clones in one run
MaxFaults == 1      \* failures of the external collaborators in one run
MaxCommits == 3     \* commits in one run, the repository's first included
MaxWrites == 1      \* write calls on one open handle
MaxOps == 3         \* calls of Client methods in one run

----------------------------------------------------------------------------
(* Names, paths, contents.                                                 *)

DvcSuffix == ".dvc"
GitDir == <<".git">>
DvcDir == <<".dvc">>

\* EXCLUDED_GIT_SEARCH_DIRECTORIES
EXCLUDED_GIT_SEARCH_DIRECTORIES == {GitDir, DvcDir}

\* Tokens that start with a dot.
DotTokens == {".dvc", ".git", ".md", ".gitignore", ".dvcignore"}

Last(s) == s[Len(s)]
Front(s) == SubSeq(s, 1, Len(s) - 1)

\* os.path.basename / os.path.dirname of a path inside the clone.
Basename(p) == Last(p)
Dirname(p) == Front(p)

\* f"{path}.dvc": the suffix goes onto the last name of the path.
WithSuffix(p) == [p EXCEPT ![Len(p)] = Append(@, DvcSuffix)]

\* str.endswith(".dvc") on a path: the last token of the last name.
EndsWithDvc(p) == Len(p) > 0 /\ Last(Last(p)) = DvcSuffix

\* os.path.splitext on a path: the extension is the last dot-token of the
\* last name, unless that token is the whole name (leading dots belong to
\* the root: splitext(".dvc") = (".dvc", "")).
Splitext(p) ==
    LET name == Last(p)
    IN  IF Len(name) >= 2 /\ Last(name) \in DotTokens
          THEN [root |-> [p EXCEPT ![Len(p)] = Front(name)], ext |-> Last(name)]
          ELSE [root |-> p, ext |-> ""]

IsPrefix(d, p) == Len(d) <= Len(p) /\ SubSeq(p, 1, Len(d)) = d

\* Every proper ancestor directory of a path (the root <<>> left out).
Ancestors(p) == {SubSeq(p, 1, n) : n \in 1..(Len(p) - 1)}


----------------------------------------------------------------------------
(* Contents and their conversions.                                         *)

\* Contents a caller hands in.  "CR" and "LF" are the carriage return and
\* the line feed, "x" any other character.
InputContents == {<<>>, <<"x">>, <<"CR">>}

\* Text-mode read (open(path, "r"), newline=None): universal newlines, so
\* "\r\n" and a lone "\r" both arrive as "\n".
RECURSIVE TextRead(_)
TextRead(bytes) ==
    IF bytes = <<>> THEN <<>>
    ELSE IF Head(bytes) = "CR"
      THEN IF Len(bytes) >= 2 /\ bytes[2] = "LF"
             THEN <<"LF">> \o TextRead(SubSeq(bytes, 3, Len(bytes)))
             ELSE <<"LF">> \o TextRead(Tail(bytes))
      ELSE <<Head(bytes)>> \o TextRead(Tail(bytes))

\* Text-mode write (open(path, "w"), newline=None): "\n" becomes os.linesep,
\* which is "\n" on the POSIX hosts the clone paths are built for.
RECURSIVE TextWrite(_)
TextWrite(text) ==
    IF text = <<>> THEN <<>>
    ELSE (IF Head(text) = "LF" THEN <<"LF">> ELSE <<Head(text)>>)
         \o TextWrite(Tail(text))

\* The stream dvc_open_clone builds from the payload file.
StreamOf(bytes, is_binary) ==
    IF is_binary THEN [type |-> "bytes", data |-> bytes]
    ELSE [type |-> "str", data |-> TextRead(bytes)]

\* io.BytesIO() / io.StringIO(): the empty-fallback stream.
EmptyStream(is_binary) ==
    [type |-> (IF is_binary THEN "bytes" ELSE "str"), data |-> <<>>]

\* A pointer file names its payload by hash; the hash stands for the content.
PointerFor(content) == <<"md5">> \o content
HashIn(pointer) == Tail(pointer)

----------------------------------------------------------------------------
(* The working copy: a tree of files and directories.                      *)

EmptyMap == [q \in {} |-> <<>>]
NoTree == [files |-> EmptyMap, dirs |-> {}, cache |-> {}]

IsFile(w, p) == p \in DOMAIN w.files
IsDir(w, p) == p = <<>> \/ p \in w.dirs

\* A function with one key set / removed.
Put(f, k, v) == [q \in DOMAIN f \cup {k} |-> IF q = k THEN v ELSE f[q]]
Drop(f, k) == [q \in DOMAIN f \ {k} |-> f[q]]

\* pathlib.Path(dirname).mkdir(parents=True, exist_ok=True)
Mkdirs(w, d) == [w EXCEPT !.dirs = @ \cup Ancestors(Append(d, <<"_">>))]

\* os.listdir joined onto the directory: the immediate children.
Listdir(w, d) ==
    {p \in DOMAIN w.files \cup w.dirs : Len(p) = Len(d) + 1 /\ IsPrefix(d, p)}

----------------------------------------------------------------------------
(* Client.scan_dir.                                                        *)

\* Segments a caller's path string may hold besides names.
Sep == <<"/">>      \* a leading separator
Dot == <<".">>      \* the current directory

RepoUrl == "url"

\* if path.startswith("/"): path = path[1:]
StripLeadingSep(path) ==
    IF Len(path) > 0 /\ Head(path) = Sep THEN Tail(path) ELSE path

\* os.path.join(clone_path, path) relative to the clone root, "." dropped.
RECURSIVE JoinClone(_)
JoinClone(path) ==
    IF path = <<>> THEN <<>>
    ELSE IF Head(path) = Dot THEN JoinClone(Tail(path))
    ELSE <<Head(path)>> \o JoinClone(Tail(path))

\* A variant of the loop body that lists the reserved directories too.
EntryOfListingReserved(w, entity) ==
    IF IsDir(w, entity)
      THEN <<[path |-> entity, name |-> Basename(entity),
              dvc_repo |-> RepoUrl, is_dir |-> TRUE]>>
    ELSE IF IsFile(w, entity) /\ EndsWithDvc(entity)
      THEN LET split == Splitext(entity)
           IN  IF split.ext = DvcSuffix
                 THEN <<[path |-> split.root, name |-> Basename(split.root),
                         dvc_repo |-> RepoUrl, is_dir |-> FALSE]>>
                 ELSE <<>>
    ELSE <<>>

\* A variant of the loop body that takes every regular file for a pointer
\* file.
EntryOfListingEveryFile(w, entity) ==
    IF IsDir(w, entity) /\ Basename(entity) \notin EXCLUDED_GIT_SEARCH_DIRECTORIES
      THEN <<[path |-> entity, name |-> Basename(entity),
              dvc_repo |-> RepoUrl, is_dir |-> TRUE]>>
    ELSE IF IsFile(w, entity)
      THEN LET split == Splitext(entity)
           IN  <<[path |-> split.root, name |-> Basename(split.root),
                  dvc_repo |-> RepoUrl, is_dir |-> FALSE]>>
    ELSE <<>>

\* The body of the loop over entities: what one child adds to the result.
EntryOf(w, entity) ==
    IF IsDir(w, entity) /\ Basename(entity) \notin EXCLUDED_GIT_SEARCH_DIRECTORIES
      THEN <<[path |-> entity, name |-> Basename(entity),
              dvc_repo |-> RepoUrl, is_dir |-> TRUE]>>
    ELSE IF IsFile(w, entity) /\ EndsWithDvc(entity)
      THEN LET split == Splitext(entity)
           IN  IF split.ext = DvcSuffix
                 THEN <<[path |-> split.root, name |-> Basename(split.root),
                         dvc_repo |-> RepoUrl, is_dir |-> FALSE]>>
                 ELSE <<>>
    ELSE <<>>

RECURSIVE ScanEntities(_, _)
ScanEntities(w, entities) ==
    IF entities = {} THEN <<>>
    ELSE LET e == CHOOSE x \in entities : TRUE
         IN  EntryOf(w, e) \o ScanEntities(w, entities \ {e})

\* The parent-directory segment of a path string.
Up == <<"..">>

\* What the host holds outside the clone.  The filesystem root has the
\* directory etc with a file x.dvc in it; the temporary directory of the
\* clone has the clone itself, "repo", and nothing else.
HostRootTree ==
    [files |-> [q \in {<< <<"etc">>, <<"x", ".dvc">> >>} |-> <<>>],
     dirs |-> {<< <<"etc">> >>}, cache |-> {}]

TempDirTree == [files |-> EmptyMap, dirs |-> {<< <<"repo">> >>}, cache |-> {}]

\* os.path.join(clone_path, path): a path that still starts with a
\* separator is absolute and replaces clone_path; a leading ".." leaves the
\* clone for its temporary directory; anything else stays below clone_path.
Locate(path) ==
    IF path # <<>> /\ Head(path) = Sep
      THEN [where |-> "root", path |-> JoinClone(Tail(path))]
    ELSE IF path # <<>> /\ Head(path) = Up
      THEN [where |-> "temp", path |-> JoinClone(Tail(path))]
    ELSE [where |-> "clone", path |-> JoinClone(path)]

\* The tree os.listdir and os.path.isdir / isfile look at.
TreeAt(w, where) ==
    IF where = "clone" THEN w
    ELSE IF where = "root" THEN HostRootTree
    ELSE TempDirTree

\* os.path.relpath(entity, clone_path).  The clone is three directories
\* below the root (temp_path, the temporary directory, "repo") and one
\* below its temporary directory, where "repo" is the clone itself.
RelPath(where, p) ==
    IF where = "clone" THEN p
    ELSE IF where = "root" THEN <<Up, Up, Up>> \o p
    ELSE IF p = << <<"repo">> >> THEN <<Dot>>
    ELSE <<Up>> \o p

\* The entries with their paths taken relative to the clone.
Relocate(where, entries) ==
    [i \in 1..Len(entries) |->
        [entries[i] EXCEPT !.path = RelPath(where, @)]]

\* scan_dir on an initialised cache: the list of entries, or the error
\* os.listdir raises.
ScanDir(w, path) ==
    LET at == Locate(StripLeadingSep(path))
    IN  IF IsFile(TreeAt(w, at.where), at.path)
          THEN [err |-> "NotADirectoryError", entries |-> <<>>]
        ELSE IF ~IsDir(TreeAt(w, at.where), at.path)
          THEN [err |-> "FileNotFoundError", entries |-> <<>>]
        ELSE [err |-> None,
              entries |->
                Relocate(at.where,
                         ScanEntities(TreeAt(w, at.where),
                                      Listdir(TreeAt(w, at.where), at.path)))]

----------------------------------------------------------------------------
(* One call in progress.  A call threads a record m through its steps:     *)
(* the cache (client._repo_cache), the working copy, the clone's Git       *)
(* trees, the remotes, the calls made so far, the pending exception and    *)
(* what it returns.  A step does nothing once an exception is pending.     *)

NoFault == [kind |-> None, nth |-> 0]

NoError ==
    [type |-> None, repo |-> None, files |-> <<>>, cause |-> None,
     cmd |-> [c |-> None, arg |-> <<>>]]

Error(type, repo, files, cause) ==
    [type |-> type, repo |-> repo, files |-> files, cause |-> cause,
     cmd |-> [c |-> None, arg |-> <<>>]]

Raise(m, e) == [m EXCEPT !.err = e]
Raised(m) == m.err.type # None

\* The statements after a call: they run on what the call left unless it
\* raised, and then the exception goes on to the caller.
Then(m, K(_)) == IF Raised(m) THEN m ELSE K(m)

CallRec(kind, arg) == [c |-> kind, arg |-> arg]
Call(m, kind, arg) == [m EXCEPT !.calls = Append(@, CallRec(kind, arg))]

CountCalls(calls, kind) ==
    Cardinality({i \in 1..Len(calls) : calls[i].c = kind})

\* The external collaborator fails on this call: the fault names the kind
\* of call and which one of that kind in the current operation.
Hits(m, fault, kind) ==
    fault.kind = kind /\ fault.nth = CountCalls(m.calls, kind) + 1

----------------------------------------------------------------------------
(* The VCS executor (dvc_cli.py) acting on the working copy.               *)

NoCmd == [c |-> None, arg |-> <<>>]

\* DVCCliCommandError(cmd, out, returncode, path): the command that exited
\* non-zero goes with the error.
CliError(kind, arg) ==
    [type |-> "DVCCliCommandError", repo |-> None, files |-> <<>>,
     cause |-> None, cmd |-> CallRec(kind, arg)]

\* What the shell was asked to run, version checks included.
Shell(m, kind, arg) == [m EXCEPT !.shell = Append(@, CallRec(kind, arg))]

\* The subcommand is run: one entry among the calls, one in the shell.
Run(m, kind, arg) == Shell(Call(m, kind, arg), kind, arg)

\* What _check_dvc_shell_executable raises.
VersionFaultKinds == {"DVCMissingExecutableError", "DVCInvalidVersion"}

\* A variant of _execute_call that leaves the version check out.
CheckSkipped(m, fault) == m

\* _check_dvc_shell_executable: dvc version is run; a missing executable or
\* a version outside the constraint raises.
CheckDvcShellExecutable(m, fault) ==
    IF /\ fault.kind \in VersionFaultKinds
       /\ fault.nth = CountCalls(m.shell, "dvc version") + 1
      THEN Raise(Shell(m, "dvc version", <<>>),
                 Error(fault.kind, None, <<>>, None))
      ELSE Shell(m, "dvc version", <<>>)

\* _execute_call, shell branch, up to the subcommand (lines 136-139): the
\* version check comes first, and the subcommand runs when it returns.
ExecuteCall(m, fault) ==
    IF Raised(m) THEN m ELSE CheckDvcShellExecutable(m, fault)

GitignoreIn(dir) == Append(dir, <<".gitignore">>)

\* The *.dvc files of the workspace that are pointer files.
PointerFiles(w) ==
    {q \in DOMAIN w.files :
        EndsWithDvc(q) /\ w.files[q] # <<>> /\ Head(w.files[q]) = "md5"}

\* dvc add 'path': hash the payload into the local cache, write the pointer
\* file next to it and list the payload in the directory's .gitignore.
DvcAdd(m, fault, path) ==
    Then(ExecuteCall(m, fault), LAMBDA m0 :
      IF Hits(m0, fault, "dvc add") \/ ~IsFile(m0.wc, path)
        THEN Raise(Run(m0, "dvc add", path), CliError("dvc add", path))
      ELSE [Run(m0, "dvc add", path) EXCEPT
               !.wc.files = Put(Put(@, WithSuffix(path),
                                    PointerFor(m0.wc.files[path])),
                                GitignoreIn(Dirname(path)), <<>>),
               !.wc.cache = @ \cup {m0.wc.files[path]}])

\* A variant of dvc remove that leaves the pointer file where it is.
DvcRemoveKeepingPointer(m, fault, path) ==
    Then(ExecuteCall(m, fault), LAMBDA m0 :
      IF Hits(m0, fault, "dvc remove") \/ ~IsFile(m0.wc, WithSuffix(path))
        THEN Raise(Run(m0, "dvc remove", path), CliError("dvc remove", path))
      ELSE Run(m0, "dvc remove", path))

\* dvc remove 'path.dvc': delete the pointer file; the payload stays in the
\* workspace and on the blob remote.
DvcRemove(m, fault, path) ==
    Then(ExecuteCall(m, fault), LAMBDA m0 :
      IF Hits(m0, fault, "dvc remove") \/ ~IsFile(m0.wc, WithSuffix(path))
        THEN Raise(Run(m0, "dvc remove", path), CliError("dvc remove", path))
      ELSE [Run(m0, "dvc remove", path) EXCEPT
               !.wc.files = Drop(@, WithSuffix(path))])

\* dvc pull 'path': fetch the payload the pointer names from the blob remote
\* (or the local cache) and check it out; when it is nowhere to be found the
\* payload file is not materialised.
DvcPullPath(m, fault, path) ==
    Then(ExecuteCall(m, fault), LAMBDA m0 :
      IF Hits(m0, fault, "dvc pull") \/ ~IsFile(m0.wc, WithSuffix(path))
        THEN Raise(Run(m0, "dvc pull", path), CliError("dvc pull", path))
      ELSE IF HashIn(m0.wc.files[WithSuffix(path)])
                \in m0.wc.cache \cup m0.remote.blobs
        THEN [Run(m0, "dvc pull", path) EXCEPT
                 !.wc.files = Put(@, path, HashIn(m0.wc.files[WithSuffix(path)])),
                 !.wc.cache = @ \cup {HashIn(m0.wc.files[WithSuffix(path)])}]
      ELSE Run(m0, "dvc pull", path))

\* dvc push: upload the cached payloads the workspace's pointer files name.
DvcPush(m, fault) ==
    Then(ExecuteCall(m, fault), LAMBDA m0 :
      IF Hits(m0, fault, "dvc push")
        THEN Raise(Run(m0, "dvc push", <<>>), CliError("dvc push", <<>>))
      ELSE [Run(m0, "dvc push", <<>>) EXCEPT
               !.remote.blobs =
                  @ \cup ({HashIn(m0.wc.files[q]) : q \in PointerFiles(m0.wc)}
                          \cap m0.wc.cache)])

----------------------------------------------------------------------------
(* The Source-Control handle (GitPython) acting on the clone.              *)

GitError == Error("GitError", None, <<>>, None)

\* repo.index.add([file]): stage the file as it is in the working tree.
IndexAdd(m, fault, file) ==
    IF Raised(m) THEN m
    ELSE IF Hits(m, fault, "index.add")
      THEN Raise(Call(m, "index.add", file), GitError)
    ELSE IF ~IsFile(m.wc, file)
      THEN Raise(Call(m, "index.add", file),
                 Error("FileNotFoundError", None, <<>>, None))
    ELSE [Call(m, "index.add", file) EXCEPT
             !.git.index = Put(@, file, m.wc.files[file])]

\* repo.index.remove([file]): git rm --cached, which fails on a path the
\* index does not hold.
IndexRemove(m, fault, file) ==
    IF Raised(m) THEN m
    ELSE IF Hits(m, fault, "index.remove") \/ file \notin DOMAIN m.git.index
      THEN Raise(Call(m, "index.remove", file), GitError)
    ELSE [Call(m, "index.remove", file) EXCEPT !.git.index = Drop(@, file)]

\* The files a commit changes: those its tree and its parent's differ on.
Touched(old, new) ==
    {q \in DOMAIN old \cup DOMAIN new :
        q \notin DOMAIN old \/ q \notin DOMAIN new \/ old[q] # new[q]}

\* repo.index.commit(message): HEAD becomes the index; the new commit heads
\* the history.  Commits are numbered in the order they are made and a
\* commit's number is also its committed_date.
Commit(m, fault, message) ==
    IF Raised(m) THEN m
    ELSE IF Hits(m, fault, "commit")
      THEN Raise(Call(m, "commit", <<>>), GitError)
    ELSE [Call(m, "commit", <<>>) EXCEPT
             !.git.head = m.git.index,
             !.git.log = <<[id |-> m.commits + 1, date |-> m.commits + 1,
                            touched |-> Touched(m.git.head, m.git.index),
                            message |-> message]>> \o @,
             !.commits = @ + 1,
             !.commit = m.commits + 1]

\* The history old is what the history new grew from (newest commit first).
IsAncestor(old, new) ==
    /\ Len(old) <= Len(new)
    /\ SubSeq(new, Len(new) - Len(old) + 1, Len(new)) = old

\* repo.remotes.origin.push(): the remote takes the clone's HEAD when that
\* is a fast-forward.  A push the remote rejects raises nothing: GitPython
\* reports it in the flags of the PushInfo list push() returns, and update
\* and remove drop that list.
GitPush(m, fault) ==
    IF Raised(m) THEN m
    ELSE IF Hits(m, fault, "git push")
      THEN Raise(Call(m, "git push", <<>>), GitError)
    ELSE IF ~IsAncestor(m.remote.log, m.git.log)
      THEN Call(m, "git push", <<>>)
    ELSE [Call(m, "git push", <<>>) EXCEPT
             !.remote.tree = m.git.head, !.remote.log = m.git.log]

\* repo_add_dvc_files: one index call per file, in list order.
RECURSIVE RepoAddDvcFiles(_, _, _, _)
RepoAddDvcFiles(m, fault, files, delete_mode) ==
    IF files = <<>> THEN m
    ELSE LET dvc_file == WithSuffix(Head(files))
             m1 == IF ~delete_mode THEN IndexAdd(m, fault, dvc_file)
                   ELSE IndexRemove(m, fault, dvc_file)
         IN  RepoAddDvcFiles(m1, fault, Tail(files), delete_mode)

----------------------------------------------------------------------------
(* clone_repo and the cache.                                               *)

DefaultTmp == "/tmp"

\* The working tree Repo.clone_from checks out.
Checkout(tree) ==
    [files |-> tree,
     dirs |-> {<<GitDir>>} \cup UNION {Ancestors(q) : q \in DOMAIN tree},
     cache |-> {}]

Place(root, n, sub) == [root |-> root, n |-> n, sub |-> sub]

\* A variant of the dataclass in which every clone lands in the same
\* directory.
ClonedRepoShared(root, n) ==
    [clone_path |-> Place(root, 1, "repo"), temp_dir |-> Place(root, 1, ""),
     repo |-> Place(root, 1, "repo"), dvc |-> Place(root, 1, "repo")]

\* The ClonedRepo dataclass: the n-th temporary directory under root, its
\* "repo" subdirectory, and the two handles bound to the clone path.
ClonedRepo(root, n) ==
    [clone_path |-> Place(root, n, "repo"), temp_dir |-> Place(root, n, ""),
     repo |-> Place(root, n, "repo"), dvc |-> Place(root, n, "repo")]

\* client._repo_cache = None
NoRepo == ClonedRepo("", 0)

\* A variant of the clone branch that tries the clone a second time when
\* the first attempt fails.
FreshCloneRetrying(m, fault, temp_path) ==
    LET root == IF temp_path = None THEN DefaultTmp ELSE temp_path
        m1 == IF Hits(m, fault, "clone")
                THEN Call(Call(m, "clone", <<>>), "clone", <<>>)
                ELSE Call(m, "clone", <<>>)
    IN  [m1 EXCEPT !.cloned = ClonedRepo(root, m.clones + 1),
                   !.clones = @ + 1,
                   !.wc = Checkout(m.remote.tree),
                   !.git = [index |-> m.remote.tree,
                            head |-> m.remote.tree,
                            log |-> m.remote.log]]

\* The clone branch of clone_repo (lines 82-108): a fresh temporary
\* directory under temp_path, git clone into its "repo" subdirectory.
FreshClone(m, fault, temp_path) ==
    IF Hits(m, fault, "clone")
      THEN Raise(Call(m, "clone", <<>>),
                 Error("DVCGitRepoNotAccessibleError", RepoUrl, <<>>, "GitError"))
    ELSE LET root == IF temp_path = None THEN DefaultTmp ELSE temp_path
             m1 == Call(m, "clone", <<>>)
         IN  [m1 EXCEPT !.cloned = ClonedRepo(root, m.clones + 1),
                        !.clones = @ + 1,
                        !.wc = Checkout(m.remote.tree),
                        !.git = [index |-> m.remote.tree,
                                 head |-> m.remote.tree,
                                 log |-> m.remote.log]]

\* The local paths that exist on disk (os.path.exists): a repository staged
\* by hand.
LocalRepos == {"/staged"}

\* A variant of clone_repo that clones although a cache handle is given.
CloneRepoIgnoringCache(m, fault, temp_path, existing_file_path, repo) ==
    IF Raised(m) THEN m
    ELSE IF existing_file_path # None /\ existing_file_path \in LocalRepos
      THEN Raise(m, Error("UnboundLocalError", None, <<>>, None))
    ELSE FreshClone(m, fault, temp_path)

\* A variant of clone_repo that brings a cached clone up to date with the
\* remote before it hands it back.
CloneRepoFetching(m, fault, temp_path, existing_file_path, repo) ==
    IF Raised(m) THEN m
    ELSE IF existing_file_path # None /\ existing_file_path \in LocalRepos
      THEN Raise(m, Error("UnboundLocalError", None, <<>>, None))
    ELSE IF repo # NoRepo
      THEN [Call(m, "fetch", <<>>) EXCEPT
               !.cloned = repo,
               !.wc = Checkout(m.remote.tree),
               !.git = [index |-> m.remote.tree, head |-> m.remote.tree,
                        log |-> m.remote.log]]
    ELSE FreshClone(m, fault, temp_path)

\* clone_repo(dvc_repo, temp_path, existing_file_path, repo): the record a
\* caller assigns to client._repo_cache, in m.cloned.
CloneRepo(m, fault, temp_path, existing_file_path, repo) ==
    IF Raised(m) THEN m
    ELSE IF existing_file_path # None /\ existing_file_path \in LocalRepos
      THEN \* DVCLocalCli(clone_path) reads clone_path before it is bound.
           Raise(m, Error("UnboundLocalError", None, <<>>, None))
    ELSE IF repo # NoRepo THEN [m EXCEPT !.cloned = repo]
    ELSE FreshClone(m, fault, temp_path)

\* self._repo_cache = clone_repo(...): the assignment happens only when the
\* call returns.
EnsureCache(m, fault, temp_path) ==
    Then(CloneRepo(m, fault, temp_path, None, m.cache),
         LAMBDA m1 : [m1 EXCEPT !.cache = m1.cloned])

----------------------------------------------------------------------------
(* dvc_open_clone: the read-mode open.                                     *)

NoStream == [type |-> None, data |-> <<>>]

DVCFileMissingError(path) == Error("DVCFileMissingError", RepoUrl, <<path>>, None)

\* A variant that takes the empty-fallback branch whatever the flag says.
MissingFileAlwaysEmpty(m, path, empty_fallback, is_binary) ==
    [m EXCEPT !.stream = EmptyStream(is_binary)]

\* The empty-fallback-or-raise branch (lines 134-138 and 142-146).
MissingFile(m, path, empty_fallback, is_binary) ==
    IF empty_fallback THEN [m EXCEPT !.stream = EmptyStream(is_binary)]
    ELSE Raise(m, DVCFileMissingError(path))

\* A variant of dvc_open_clone that looks at the payload without pulling.
DvcOpenCloneWithoutPull(m, fault, path, empty_fallback, existing_file_path, is_binary) ==
    Then(Then(CloneRepo(m, fault, None, existing_file_path, m.cache),
              LAMBDA m0 : [m0 EXCEPT !.cache = m0.cloned]),
         LAMBDA m1 :
           IF ~IsFile(m1.wc, WithSuffix(path)) \/ ~IsFile(m1.wc, path)
             THEN MissingFile(m1, path, empty_fallback, is_binary)
           ELSE [m1 EXCEPT !.stream = StreamOf(m1.wc.files[path], is_binary)])

\* dvc_open_clone(repo, path, empty_fallback, existing_file_path, client,
\* is_binary).  clone_repo gets no temp_path here.
DvcOpenClone(m, fault, path, empty_fallback, existing_file_path, is_binary) ==
    Then(Then(CloneRepo(m, fault, None, existing_file_path, m.cache),
              LAMBDA m0 : [m0 EXCEPT !.cache = m0.cloned]),
         LAMBDA m1 :
           IF ~IsFile(m1.wc, WithSuffix(path))
             THEN MissingFile(m1, path, empty_fallback, is_binary)
           ELSE Then(DvcPullPath(m1, fault, path),
                     LAMBDA m2 :
                       IF ~IsFile(m2.wc, path)
                         THEN MissingFile(m2, path, empty_fallback, is_binary)
                       ELSE [m2 EXCEPT
                                !.stream = StreamOf(m2.wc.files[path],
                                                    is_binary)]))

\* dvc_open: the fallback binding of line 214.
DvcOpen(m, fault, path, empty_fallback, is_binary) ==
    DvcOpenClone(m, fault, path, empty_fallback, None, is_binary)

----------------------------------------------------------------------------
(* Upload sources (dvc_fs/dvc_upload.py).                                  *)

NoSrc == [clone |-> Place("", 0, ""), path |-> <<>>]

\* DVCStringUpload(dvc_path, content)
StringUpload(dvc_path, content) ==
    [kind |-> "string", dvc_path |-> dvc_path, content |-> content,
     src |-> NoSrc]

\* DVCPathUpload(dvc_path, src)
PathUpload(dvc_path, src) ==
    [kind |-> "path", dvc_path |-> dvc_path, content |-> <<>>, src |-> src]

\* should_copy_path(dest): a path source skips the copy onto itself.
ShouldCopyPath(file, dest) ==
    IF file.kind = "path" THEN file.src # dest ELSE TRUE

\* What input_file.read() yields once the source is open.
SourceRead(m, file) ==
    IF file.kind = "path" THEN TextRead(m.wc.files[file.src.path])
    ELSE file.content

\* Entering the source: a path source opens its file, which must exist.
SourceOpen(m, file) ==
    IF Raised(m) THEN m
    ELSE IF file.kind = "path" /\ ~IsFile(m.wc, file.src.path)
      THEN Raise(m, Error("FileNotFoundError", None, <<>>, None))
    ELSE m

\* [file.dvc_path for file in updated_files]
RECURSIVE DvcPaths(_)
DvcPaths(files) ==
    IF files = <<>> THEN <<>>
    ELSE <<Head(files).dvc_path>> \o DvcPaths(Tail(files))

\* What the caller put into each source, in input order.
RECURSIVE SourceContents(_)
SourceContents(files) ==
    IF files = <<>> THEN <<>>
    ELSE <<Head(files).content>> \o SourceContents(Tail(files))

----------------------------------------------------------------------------
(* Client.update and Client.remove.                                        *)

NoMeta == [dvc_files_updated |-> <<>>, dvc_files_update_requested |-> <<>>,
           commit_hexsha |-> 0, committed_date |-> 0]

\* ", ".join(names), as the sequence of its pieces.
RECURSIVE JoinNames(_)
JoinNames(names) ==
    IF names = <<>> THEN <<>>
    ELSE IF Len(names) = 1 THEN <<Head(names)>>
    ELSE <<Head(names), ", ">> \o JoinNames(Tail(names))

\* [os.path.basename(p) for p in paths]
RECURSIVE Basenames(_)
Basenames(paths) ==
    IF paths = <<>> THEN <<>>
    ELSE <<Basename(Head(paths))>> \o Basenames(Tail(paths))

\* A variant that lists the base names last to first.
ResolveMessageBackwards(prefix, paths, commit_message, commit_message_extra) ==
    LET Rev(s) == [i \in 1..Len(s) |-> s[Len(s) + 1 - i]]
        message == IF commit_message = None
                     THEN <<prefix>> \o JoinNames(Rev(Basenames(paths)))
                     ELSE <<commit_message>>
    IN  IF commit_message_extra # None
          THEN message \o <<"\n", commit_message_extra>>
          ELSE message

\* The commit message update (lines 586-595) and remove (lines 510-519)
\* resolve, as the sequence of its pieces: the default is the prefix and
\* the base names joined; the extra goes after a newline.
ResolveMessage(prefix, paths, commit_message, commit_message_extra) ==
    LET message == IF commit_message = None
                     THEN <<prefix>> \o JoinNames(Basenames(paths))
                     ELSE <<commit_message>>
    IN  IF commit_message_extra # None
          THEN message \o <<"\n", commit_message_extra>>
          ELSE message

UpdatePrefix == "DVC Automatically updated files: "
RemovePrefix == "DVC Automatically removed files: "

UpdateMessage(updated_files, commit_message, commit_message_extra) ==
    ResolveMessage(UpdatePrefix, DvcPaths(updated_files), commit_message,
                   commit_message_extra)

RemoveMessage(removed_files, commit_message, commit_message_extra) ==
    ResolveMessage(RemovePrefix, removed_files, commit_message,
                   commit_message_extra)

\* Where a logical path lies in the clone the cache points at.
InClone(m, path) == [clone |-> m.cache.clone_path, path |-> path]

\* One round of the loop of lines 601-613: open the source, make the parent
\* directories, copy unless the source says not to, then dvc add.
UpdateOne(m, fault, file) ==
    LET m1 == SourceOpen(m, file)
    IN  IF Raised(m1) THEN m1
        ELSE LET output_dvc_path == file.dvc_path
                 m2 == [m1 EXCEPT !.wc = Mkdirs(@, Dirname(output_dvc_path))]
                 m3 == IF ShouldCopyPath(file, InClone(m2, output_dvc_path))
                         THEN [Call(m2, "write", output_dvc_path) EXCEPT
                                  !.wc.files = Put(@, output_dvc_path,
                                                   TextWrite(SourceRead(m2, file)))]
                         ELSE m2
             IN  DvcAdd(m3, fault, file.dvc_path)

\* A variant of the loop that takes the sources last to first.
RECURSIVE UpdateFilesBackwards(_, _, _)
UpdateFilesBackwards(m, fault, files) ==
    IF files = <<>> \/ Raised(m) THEN m
    ELSE UpdateOne(UpdateFilesBackwards(m, fault, Tail(files)), fault,
                   Head(files))

\* A variant of the loop that goes on to the next source after a failure
\* and raises the first error at the end.
RECURSIVE UpdateFilesContinuing(_, _, _)
UpdateFilesContinuing(m, fault, files) ==
    IF files = <<>> THEN m
    ELSE LET m1 == UpdateOne([m EXCEPT !.err = NoError], fault, Head(files))
         IN  UpdateFilesContinuing(
               IF Raised(m) THEN Raise(m1, m.err) ELSE m1, fault, Tail(files))

RECURSIVE UpdateFiles(_, _, _)
UpdateFiles(m, fault, files) ==
    IF files = <<>> \/ Raised(m) THEN m
    ELSE UpdateFiles(UpdateOne(m, fault, Head(files)), fault, Tail(files))

\* A variant of update without the except clause.
UpdateExceptPassing(m, files) == m

\* A variant of the except clause that takes the pointer files of the batch
\* out of the working copy again before it raises.
UpdateExceptRollingBack(m, files) ==
    IF m.err.type = "GitError"
      THEN Raise([m EXCEPT !.wc.files =
                     [q \in DOMAIN @ \ {WithSuffix(files[i].dvc_path) :
                                          i \in 1..Len(files)} |-> @[q]]],
                 Error("DVCGitUpdateError", RepoUrl, DvcPaths(files), "GitError"))
      ELSE m

\* except exc.GitError as e: raise DVCGitUpdateError(dvc_repo, files, e)
UpdateExcept(m, files) ==
    IF m.err.type = "GitError"
      THEN Raise(m, Error("DVCGitUpdateError", RepoUrl, DvcPaths(files), "GitError"))
      ELSE m

\* A variant of update whose result leaves the first source out of the
\* updated list.
UpdateBatchShortResult(m, fault, temp_path, updated_files, commit_message, commit_message_extra) ==
    Then(Then(DvcPush(UpdateFiles(EnsureCache(m, fault, temp_path),
                                  fault, updated_files),
                      fault),
              LAMBDA m3 :
                UpdateExcept(
                  GitPush(Commit(RepoAddDvcFiles(
                                   m3, fault, DvcPaths(updated_files), FALSE),
                                 fault,
                                 UpdateMessage(updated_files, commit_message,
                                               commit_message_extra)),
                          fault),
                  updated_files)),
         LAMBDA m4 :
           [m4 EXCEPT !.meta =
              [dvc_files_updated |-> DvcPaths(Tail(updated_files)),
               dvc_files_update_requested |-> DvcPaths(updated_files),
               commit_hexsha |-> m4.commit,
               committed_date |-> m4.commit]])

\* A variant of update that commits and pushes to Git before the payloads
\* are pushed.
UpdateBatchGitFirst(m, fault, temp_path, updated_files, commit_message, commit_message_extra) ==
    Then(Then(UpdateFiles(EnsureCache(m, fault, temp_path), fault, updated_files),
              LAMBDA m3 :
                DvcPush(UpdateExcept(
                          GitPush(Commit(RepoAddDvcFiles(
                                           m3, fault, DvcPaths(updated_files), FALSE),
                                         fault,
                                         UpdateMessage(updated_files, commit_message,
                                                       commit_message_extra)),
                                  fault),
                          updated_files),
                        fault)),
         LAMBDA m4 :
           [m4 EXCEPT !.meta =
              [dvc_files_updated |-> DvcPaths(updated_files),
               dvc_files_update_requested |-> DvcPaths(updated_files),
               commit_hexsha |-> m4.commit,
               committed_date |-> m4.commit]])

\* Client.update past the empty-input return (lines 581-647).
UpdateBatch(m, fault, temp_path, updated_files, commit_message, commit_message_extra) ==
    Then(Then(DvcPush(UpdateFiles(EnsureCache(m, fault, temp_path),
                                  fault, updated_files),
                      fault),
              LAMBDA m3 :
                UpdateExcept(
                  GitPush(Commit(RepoAddDvcFiles(
                                   m3, fault, DvcPaths(updated_files), FALSE),
                                 fault,
                                 UpdateMessage(updated_files, commit_message,
                                               commit_message_extra)),
                          fault),
                  updated_files)),
         LAMBDA m4 :
           [m4 EXCEPT !.meta =
              [dvc_files_updated |-> DvcPaths(updated_files),
               dvc_files_update_requested |-> DvcPaths(updated_files),
               commit_hexsha |-> m4.commit,
               committed_date |-> m4.commit]])

\* A variant of update without the empty-input return.
UpdateWithoutFastPath(m, fault, temp_path, updated_files, commit_message, commit_message_extra) ==
    UpdateBatch(m, fault, temp_path, updated_files, commit_message,
                commit_message_extra)

\* Client.update(updated_files): an empty list returns at once (lines
\* 571-580) with empty lists and no commit.
Update(m, fault, temp_path, updated_files, commit_message, commit_message_extra) ==
    IF Len(updated_files) = 0
      THEN [m EXCEPT !.meta = NoMeta]
    ELSE UpdateBatch(m, fault, temp_path, updated_files, commit_message,
                     commit_message_extra)

\* The handler of lines 544-547 names updated_files, which remove does not
\* bind: evaluating it raises NameError while the GitError is handled.
RemoveExcept(m, files) ==
    IF m.err.type = "GitError"
      THEN Raise(m, Error("NameError", None, <<>>, "GitError"))
      ELSE m

\* A variant of the loop that takes the paths last to first.
RECURSIVE RemoveFilesBackwards(_, _, _)
RemoveFilesBackwards(m, fault, files) ==
    IF files = <<>> \/ Raised(m) THEN m
    ELSE DvcRemove(RemoveFilesBackwards(m, fault, Tail(files)), fault,
                   Head(files))

RECURSIVE RemoveFiles(_, _, _)
RemoveFiles(m, fault, files) ==
    IF files = <<>> \/ Raised(m) THEN m
    ELSE RemoveFiles(DvcRemove(m, fault, Head(files)), fault, Tail(files))

\* Client.remove(removed_files) from line 506 on.
Remove(m, fault, temp_path, removed_files, commit_message, commit_message_extra) ==
    IF Len(removed_files) = 0 THEN m
    ELSE Then(DvcPush(RemoveFiles(EnsureCache(m, fault, temp_path),
                                  fault, removed_files),
                      fault),
              LAMBDA m3 :
                RemoveExcept(
                  GitPush(Commit(RepoAddDvcFiles(
                                   m3, fault, removed_files, TRUE),
                                 fault,
                                 RemoveMessage(removed_files, commit_message,
                                               commit_message_extra)),
                          fault),
                  removed_files))

----------------------------------------------------------------------------
(* DVCFile: the handle Client.get returns.                                 *)

\* A variant of the mode test that takes the update modes r+ and rb+ for
\* write modes.
ReadModesPlain == {"r", "rb"}

ReadModes == {"r", "rb", "r+", "rb+"}
BinaryModes == {"rb", "rb+"}

NoHandle ==
    [state |-> "none", path |-> <<>>, mode |-> None, empty_fallback |-> FALSE,
     stream |-> NoStream, wrote |-> <<>>, writes |-> 0]

\* DVCFile(path, dvc_repo, empty_fallback, client, mode): descriptor = None.
DVCFile(path, empty_fallback, mode) ==
    [state |-> "new", path |-> path, mode |-> mode,
     empty_fallback |-> empty_fallback, stream |-> NoStream, wrote |-> <<>>,
     writes |-> 0]

\* open(self._tmp_path, self.mode) for the write modes modelled: "w"
\* truncates or creates, "a" creates when missing and keeps the bytes.
OpenForWrite(w, path, mode) ==
    IF mode = "a" /\ IsFile(w, path) THEN w
    ELSE [w EXCEPT !.files = Put(@, path, <<>>)]

\* The directories are made and the staging file is opened.
Stage(m, h) ==
    [Call(Call(m, "mkdir", Dirname(h.path)), "open", h.path) EXCEPT
        !.wc = OpenForWrite(Mkdirs(@, Dirname(h.path)), h.path, h.mode)]

\* A variant of the write branch that never pulls.
EnterWriteWithoutPull(m, fault, h) ==
    Then(EnsureCache(m, fault, None), LAMBDA m2 : Stage(m2, h))

\* DVCFile.__enter__ with descriptor None, write branch (lines 303-320).
EnterWrite(m, fault, h) ==
    Then(Then(EnsureCache(m, fault, None),
              LAMBDA m1 :
                IF IsFile(m1.wc, WithSuffix(h.path))
                  THEN DvcPullPath(m1, fault, h.path) ELSE m1),
         LAMBDA m2 : Stage(m2, h))

\* DVCFile.__enter__ with descriptor None.
Enter(m, fault, h) ==
    IF h.mode \in ReadModes
      THEN DvcOpen(m, fault, h.path, h.empty_fallback, h.mode \in BinaryModes)
      ELSE EnterWrite(m, fault, h)

\* A variant of __exit__ that closes the descriptor and runs no update.
ExitWithoutUpdate(m, fault, temp_path, h, type) == m

\* A variant of __exit__ that runs the update only when the body did not
\* raise.
ExitSkippingOnError(m, fault, temp_path, h, type) ==
    IF h.mode \in ReadModes \/ type # None THEN m
    ELSE Update(m, fault, temp_path,
                <<PathUpload(h.path, InClone(m, h.path))>>, None, None)

\* A variant of __enter__ without the test of the descriptor: it opens again.
ReenterSyncing(m, fault, h) ==
    DvcOpen(m, fault, h.path, h.empty_fallback, h.mode \in BinaryModes)

\* DVCFile.__enter__ with a descriptor (line 321): the descriptor is entered
\* again.  The in-memory stream of a read handle raises ValueError once it
\* is closed.
Reenter(m, fault, h) ==
    IF h.state = "closed"
      THEN Raise(m, Error("ValueError", None, <<>>, None))
      ELSE [m EXCEPT !.stream = h.stream]

\* A variant of __exit__ without the test of the mode: every close updates.
ExitUpdatingAlways(m, fault, temp_path, h, type) ==
    Update(m, fault, temp_path,
           <<PathUpload(h.path, InClone(m, h.path))>>, None, None)

\* DVCFile.__exit__: close the descriptor; a write handle then hands its
\* staging file to update as a one-file batch.  type is the exception the
\* body of the with block raised, None when it ended normally; the method
\* hands it to the descriptor and does not look at it.
Exit(m, fault, temp_path, h, type) ==
    IF h.mode \in ReadModes THEN m
    ELSE Update(m, fault, temp_path,
                <<PathUpload(h.path, InClone(m, h.path))>>, None, None)

\* A variant of exists that answers False to every exception.
ExistsExceptAny(m) ==
    IF Raised(m) THEN [m EXCEPT !.err = NoError, !.flag = FALSE]
    ELSE [m EXCEPT !.flag = TRUE]

\* return True after the with block; except DVCFileMissingError: return
\* False.
ExistsExcept(m) ==
    IF m.err.type = "DVCFileMissingError"
      THEN [m EXCEPT !.err = NoError, !.flag = FALSE]
    ELSE IF Raised(m) THEN m
    ELSE [m EXCEPT !.flag = TRUE]

\* DVCFile.exists: with self: pass, DVCFileMissingError turned into False.
FileExists(m, fault, temp_path, h) ==
    ExistsExcept(Then(Enter(m, fault, h),
                      LAMBDA m1 : Exit(m1, fault, temp_path, h, None)))

\* Client.exists(path)
ClientExists(m, fault, temp_path, path) ==
    FileExists(m, fault, temp_path, DVCFile(path, FALSE, "rb"))

----------------------------------------------------------------------------
(* The other Client methods.                                               *)

\* A variant of cleanup that releases the directory and keeps the handle.
CleanupKeepingHandle(m) ==
    [m EXCEPT !.wc = NoTree,
              !.git = [index |-> EmptyMap, head |-> EmptyMap, log |-> <<>>]]

\* Client.cleanup
Cleanup(m) ==
    IF m.cache # NoRepo
      THEN [m EXCEPT !.cache = NoRepo, !.wc = NoTree,
                     !.git = [index |-> EmptyMap, head |-> EmptyMap, log |-> <<>>]]
      ELSE m

\* Client.cleanup_remote: self._repo_cache.dvc.cleanup_remote(file).  The
\* callee is looked up first, which fails on a cache that is None; then the
\* argument, a name the method does not bind.
ClientCleanupRemote(m) ==
    IF m.cache = NoRepo
      THEN Raise(m, Error("AttributeError", None, <<>>, None))
      ELSE Raise(m, Error("NameError", None, <<>>, None))

\* One round of the loop of lines 414-420: open for reading, read, hand the
\* content to the target, note the size.
DownloadOne(m, fault, path, empty_fallback) ==
    Then(Enter(m, fault, DVCFile(path, empty_fallback, "r")),
         LAMBDA m1 :
           [Call(m1, "target.write", path) EXCEPT
               !.delivered = Append(@, [path |-> path,
                                        content |-> m1.stream.data]),
               !.files = Append(@, path),
               !.sizes = Append(@, Len(m1.stream.data))])

\* A variant of the loop that takes the targets last to first.
RECURSIVE DownloadFilesBackwards(_, _, _, _)
DownloadFilesBackwards(m, fault, paths, empty_fallback) ==
    IF paths = <<>> \/ Raised(m) THEN m
    ELSE DownloadOne(DownloadFilesBackwards(m, fault, Tail(paths),
                                            empty_fallback),
                     fault, Head(paths), empty_fallback)

RECURSIVE DownloadFiles(_, _, _, _)
DownloadFiles(m, fault, paths, empty_fallback) ==
    IF paths = <<>> \/ Raised(m) THEN m
    ELSE DownloadFiles(DownloadOne(m, fault, Head(paths), empty_fallback),
                       fault, Tail(paths), empty_fallback)

\* Client.download(downloaded_files, empty_fallback)
Download(m, fault, paths, empty_fallback) ==
    IF Len(paths) = 0 THEN m
    ELSE DownloadFiles(m, fault, paths, empty_fallback)

\* Client.scan_dir(path)
ClientScanDir(m, fault, temp_path, path) ==
    Then(EnsureCache(m, fault, temp_path),
         LAMBDA m1 :
           LET r == ScanDir(m1.wc, path)
           IN  IF r.err # None
                 THEN Raise(m1, Error(r.err, None, <<>>, None))
                 ELSE [m1 EXCEPT !.entries = r.entries])

\* [meta.name for meta in entries]
RECURSIVE Names(_)
Names(entries) ==
    IF entries = <<>> THEN <<>>
    ELSE <<Head(entries).name>> \o Names(Tail(entries))

\* Client.list_files(path)
ListFiles(m, fault, temp_path, path) ==
    Then(ClientScanDir(m, fault, temp_path, path),
         LAMBDA m1 : [m1 EXCEPT !.names = Names(m1.entries)])

\* max_count of line 382
MaxCount == 100

RECURSIVE WithSuffixAll(_)
WithSuffixAll(paths) ==
    IF paths = <<>> THEN {}
    ELSE {WithSuffix(Head(paths))} \cup WithSuffixAll(Tail(paths))

\* repo.iter_commits(max_count, paths): the newest max_count commits among
\* those that touch one of the paths, newest first.
IterCommits(log, max_count, paths) ==
    LET Touches(c) == c.touched \cap paths # {}
        hits == SelectSeq(log, Touches)
    IN  SubSeq(hits, 1, IF Len(hits) < max_count THEN Len(hits) ELSE max_count)

\* A variant of modified_date that answers the epoch when nothing matches.
ModifiedDateDefaulting(m, fault, temp_path, paths) ==
    Then(EnsureCache(m, fault, temp_path),
         LAMBDA m1 :
           LET commits == IterCommits(m1.git.log, MaxCount,
                                      WithSuffixAll(paths))
           IN  IF commits = <<>> THEN m1
                 ELSE [m1 EXCEPT !.date = commits[1].date])

\* Client.modified_date(paths)
ModifiedDate(m, fault, temp_path, paths) ==
    Then(EnsureCache(m, fault, temp_path),
         LAMBDA m1 :
           LET commits == IterCommits(m1.git.log, MaxCount,
                                      WithSuffixAll(paths))
           IN  IF commits = <<>>
                 THEN Raise(m1, Error("IndexError", None, <<>>, None))
                 ELSE [m1 EXCEPT !.date = commits[1].date])

----------------------------------------------------------------------------
(* The universe of the runs explored.                                      *)

PathA == << <<"a">> >>                  \* a
PathB == << <<"dir">>, <<"b">> >>       \* dir/b
Paths == {PathA, PathB}

\* Files every repository holds besides pointer files.
BaseTree ==
    [q \in {<< <<"README", ".md">> >>, << <<".dvcignore">> >>,
            << DvcDir, <<"config">> >>} |-> <<>>]

\* A regular file named ".dvc" below dir, committed by hand.
StrayFile == << <<"dir">>, <<".dvc">> >>

FirstCommit(tree) ==
    <<[id |-> 1, date |-> 1, touched |-> DOMAIN tree, message |-> <<"init">>]>>

RemoteOf(tree, blobs) ==
    [tree |-> tree, blobs |-> blobs, log |-> FirstCommit(tree)]

\* The repositories a run starts from: a fresh one, and one that tracks a
\* (payload on the blob remote) and dir/b (payload missing from the blob
\* remote) and holds the stray file.
InitialRemotes ==
    { RemoteOf(BaseTree, {}),
      RemoteOf(Put(Put(Put(BaseTree, WithSuffix(PathA), PointerFor(<<"x">>)),
                       WithSuffix(PathB), PointerFor(<<"CR">>)),
                   StrayFile, <<"x">>),
               {<<"x">>}) }

\* What another Client writes to dir/b.
OtherContent == <<"y">>

\* How far the clock of another Client's host is ahead of this one's: a
\* commit's committed_date is the committer's clock.
ClockSkews == {0, 5}

\* The temp_path a Client is constructed with.
TempPaths == {"/base"}

\* Lists of logical paths given to remove, download and modified_date.
PathLists ==
    {l \in {<<>>, <<PathA>>, <<PathB>>, <<PathB, PathA>>,
             <<PathA, PathB, PathA>>} : Len(l) <= MaxBatch}

\* Lists of sources given to update.
AllUploadLists ==
    {<<>>}
    \cup {<<StringUpload(PathA, c)>> : c \in InputContents}
    \cup {<<StringUpload(PathB, <<"x">>)>>}
    \cup {<<StringUpload(PathA, <<"x">>), StringUpload(PathB, <<"CR">>)>>}

UploadLists == {l \in AllUploadLists : Len(l) <= MaxBatch}

\* Path strings given to scan_dir: ".", "/", "dir", "/dir", "a" and a
\* directory that does not exist.
ScanPaths ==
    {<<Dot>>, <<Sep>>, << <<"dir">> >>, <<Sep, <<"dir">> >>, PathA,
     << <<"none">> >>}

\* Path strings given to list_files.
ListPaths == {<<Dot>>, << <<"dir">> >>}

\* Lists of logical paths given to modified_date.
DatePaths == PathLists \ {<<>>}

\* (targets, empty_fallback) given to download.
DownloadArgs ==
    {<<paths, FALSE>> : paths \in PathLists} \cup {<<<<PathB, PathA>>, TRUE>>}

\* (mode, empty_fallback) given to get.
OpenArgs == {<<"r", FALSE>>, <<"r", TRUE>>, <<"rb", FALSE>>, <<"w", FALSE>>}

\* What the body of a with block hands to __exit__: None at its normal end,
\* the exception it raised otherwise.
ExitTypes == {None, "BodyError"}

\* existing_file_path given to dvc_open_clone: the staged repository, and a
\* path that is not on disk.
ExistingArgs == {"/staged", "/absent"}

FaultKinds ==
    {"clone", "dvc add", "dvc remove", "dvc pull", "dvc push",
     "index.add", "index.remove", "commit", "git push"}

----------------------------------------------------------------------------
(* The state machine: one action per call of a public method.              *)

NoGit == [index |-> EmptyMap, head |-> EmptyMap, log |-> <<>>]

\* What a call leaves for the observer.
NoLast ==
    [op |-> "init", paths |-> <<>>, contents |-> <<>>, scan |-> <<>>,
     mode |-> None, empty_fallback |-> FALSE,
     commit_message |-> None, commit_message_extra |-> None, message |-> <<>>,
     type |-> None, existing |-> None, fault |-> None, who |-> 1,
     before |-> NoRepo, err |-> NoError, calls |-> <<>>, shell |-> <<>>,
     meta |-> NoMeta,
     stream |-> NoStream, flag |-> FALSE, entries |-> <<>>, names |-> <<>>,
     date |-> 0, delivered |-> <<>>, files |-> <<>>, sizes |-> <<>>]

\* The record a call starts from.
Begin ==
    [cache |-> client._repo_cache, wc |-> wc, git |-> git, remote |-> remote,
     calls |-> <<>>, shell |-> <<>>, err |-> NoError, cloned |-> NoRepo,
     clones |-> hist.clones, commits |-> hist.commits, commit |-> 0,
     meta |-> NoMeta, stream |-> NoStream, flag |-> FALSE, entries |-> <<>>,
     names |-> <<>>, date |-> 0, delivered |-> <<>>, files |-> <<>>,
     sizes |-> <<>>]

\* The fault did strike: the call it names was made.
Fired(m, fault) ==
    IF fault.kind \in VersionFaultKinds
      THEN CountCalls(m.shell, "dvc version") >= fault.nth
      ELSE CountCalls(m.calls, fault.kind) >= fault.nth

\* The faults a call may meet: none once the run's budget is spent.
Faults ==
    IF hist.faults < MaxFaults
      THEN [kind : FaultKinds, nth : {1}]
           \cup [kind : VersionFaultKinds, nth : {1, 2}]
    ELSE {}

\* A call may run with no fault, or with one that strikes while the run's
\* budget of faults lasts; clones and commits stay within their bounds.
Admissible(m, fault) ==
    /\ fault # NoFault => Fired(m, fault)
    /\ m.clones <= MaxClones
    /\ m.commits <= MaxCommits

\* last' for a call that ended in m: what it was given, what it left.
Observed(m, op, given) ==
    [given EXCEPT !.op = op, !.before = client._repo_cache, !.err = m.err,
                  !.calls = m.calls, !.shell = m.shell, !.meta = m.meta, !.stream = m.stream,
                  !.flag = m.flag, !.entries = m.entries, !.names = m.names,
                  !.date = m.date, !.delivered = m.delivered,
                  !.files = m.files, !.sizes = m.sizes]

RECURSIVE Range(_)
Range(seq) == IF seq = <<>> THEN {} ELSE {Head(seq)} \cup Range(Tail(seq))

\* Bookkeeping: each path is "never" written, "initial" (tracked when the run
\* began), "written" or "removed" by the last call on it, or "unknown" after
\* a call on it that raised or that opened it for writing.
Marked(touched, mark) ==
    [p \in Paths |-> IF p \in touched THEN mark ELSE hist.status[p]]

\* The state a call leaves: the world in m, the counters, the bookkeeping
\* (the paths touched get the mark when the call returns), the observation
\* and the handle the caller holds (entered when the call was an open that
\* returned).
Finish(m, fault, op, given, touched, mark, h) ==
    /\ Admissible(m, fault)
    /\ client' = [client EXCEPT !._repo_cache = m.cache]
    /\ wc' = m.wc
    /\ git' = m.git
    /\ remote' = m.remote
    /\ hist' = [hist EXCEPT
                  !.clones = m.clones,
                  !.commits = m.commits,
                  !.live = @ + (m.clones - hist.clones),
                  !.ops = IF handle.state = "open" THEN @ ELSE @ + 1,
                  !.faults = IF fault = NoFault THEN @ ELSE @ + 1,
                  !.status = Marked(touched,
                                    IF Raised(m) THEN "unknown" ELSE mark),
                  !.clean = @ /\ ~(Raised(m) /\ touched # {}
                                             /\ mark # "unknown")]
    /\ last' = [Observed(m, op, given) EXCEPT !.fault = fault.kind]
    /\ handle' = IF op = "open" /\ ~Raised(m)
                   THEN [h EXCEPT !.state = "open", !.stream = m.stream]
                   ELSE h
    /\ UNCHANGED <<other, fs>>

\* The state a call on a handle leaves when it is not counted as a call of
\* a Client method: the world in m, the observation, the handle.
Settle(m, op, given, h) ==
    /\ m.clones <= MaxClones
    /\ m.commits <= MaxCommits
    /\ client' = [client EXCEPT !._repo_cache = m.cache]
    /\ wc' = m.wc
    /\ git' = m.git
    /\ remote' = m.remote
    /\ hist' = [hist EXCEPT !.clones = m.clones, !.commits = m.commits,
                            !.live = @ + (m.clones - hist.clones)]
    /\ last' = Observed(m, op, given)
    /\ handle' = h
    /\ UNCHANGED <<other, fs>>

Idle == handle.state # "open" /\ hist.ops < MaxOps

\* The second Client before its first call: Client(dvc_repo, temp_path).
NoOther == [_repo_cache |-> NoRepo, wc |-> NoTree, git |-> NoGit]

\* No adapter was constructed.
NoFS ==
    [made |-> FALSE, _cleaned |-> FALSE, _auto_clean |-> FALSE,
     _ignore_clean_errors |-> FALSE, _temp_dir |-> None, on_disk |-> FALSE,
     closed |-> FALSE]

\* The caller holds a read-mode handle that was entered.
HoldsReadHandle ==
    handle.mode \in ReadModes /\ handle.state \in {"open", "closed"}

\* Client(dvc_repo, temp_path) over one of the repositories.
InitClient ==
    /\ client \in [dvc_repo : {RepoUrl}, temp_path : TempPaths,
                   _repo_cache : {NoRepo}]
    /\ wc = NoTree
    /\ git = NoGit
    /\ remote \in InitialRemotes
    /\ handle = NoHandle
    /\ last = NoLast
    /\ other = NoOther
    /\ hist = [clones |-> 0, commits |-> 1, live |-> 0, faults |-> 0, ops |-> 0,
               clean |-> TRUE,
               status |-> [p \in Paths |->
                            IF WithSuffix(p) \in DOMAIN remote.tree
                              THEN "initial" ELSE "never"]]

Init == InitClient /\ fs = NoFS

\* client.update(updated_files)
DoUpdate ==
    /\ Idle
    /\ \E files \in UploadLists, fault \in Faults \cup {NoFault} :
         Finish(Update(Begin, fault, client.temp_path, files, None, None),
                fault, "update",
                [NoLast EXCEPT !.paths = DvcPaths(files),
                               !.contents = SourceContents(files)],
                Range(DvcPaths(files)), "written", NoHandle)

\* client.remove(removed_files)
DoRemove ==
    /\ Idle
    /\ \E paths \in PathLists, fault \in Faults \cup {NoFault} :
         Finish(Remove(Begin, fault, client.temp_path, paths, None, None),
                fault, "remove",
                [NoLast EXCEPT !.paths = paths],
                Range(paths), "removed", NoHandle)

\* client.exists(path)
DoExists ==
    /\ Idle
    /\ \E path \in Paths, fault \in Faults \cup {NoFault} :
         Finish(ClientExists(Begin, fault, client.temp_path, path), fault,
                "exists", [NoLast EXCEPT !.paths = <<path>>],
                {}, None, NoHandle)

\* client.download(downloaded_files, empty_fallback)
DoDownload ==
    /\ Idle
    /\ \E arg \in DownloadArgs, fault \in Faults \cup {NoFault} :
         Finish(Download(Begin, fault, arg[1], arg[2]), fault, "download",
                [NoLast EXCEPT !.paths = arg[1], !.empty_fallback = arg[2]],
                {}, None, NoHandle)

\* client.scan_dir(path)
DoScanDir ==
    /\ Idle
    /\ \E path \in ScanPaths, fault \in Faults \cup {NoFault} :
         Finish(ClientScanDir(Begin, fault, client.temp_path, path), fault,
                "scan_dir", [NoLast EXCEPT !.scan = path],
                {}, None, NoHandle)

\* client.list_files(path)
DoListFiles ==
    /\ Idle
    /\ \E path \in ListPaths, fault \in Faults \cup {NoFault} :
         Finish(ListFiles(Begin, fault, client.temp_path, path), fault,
                "list_files", [NoLast EXCEPT !.scan = path],
                {}, None, NoHandle)

\* client.modified_date(paths)
DoModifiedDate ==
    /\ Idle
    /\ \E paths \in DatePaths, fault \in Faults \cup {NoFault} :
         Finish(ModifiedDate(Begin, fault, client.temp_path, paths), fault,
                "modified_date", [NoLast EXCEPT !.paths = paths],
                {}, None, NoHandle)

\* client.cleanup()
DoCleanup ==
    /\ Idle
    /\ client' = [client EXCEPT !._repo_cache = Cleanup(Begin).cache]
    /\ wc' = Cleanup(Begin).wc
    /\ git' = Cleanup(Begin).git
    /\ hist' = [hist EXCEPT !.live = 0, !.ops = @ + 1]
    /\ last' = Observed(Cleanup(Begin), "cleanup", NoLast)
    /\ handle' = NoHandle
    /\ UNCHANGED <<remote, other, fs>>

\* client.cleanup_remote()
DoCleanupRemote ==
    /\ Idle
    /\ Finish(ClientCleanupRemote(Begin), NoFault, "cleanup_remote", NoLast,
              {}, None, NoHandle)

\* with client.get(path, empty_fallback, mode) as f: the handle is made and
\* entered.
DoOpen ==
    /\ Idle
    /\ \E path \in Paths, arg \in OpenArgs, fault \in Faults \cup {NoFault} :
         Finish(Enter(Begin, fault, DVCFile(path, arg[2], arg[1])), fault,
                "open",
                [NoLast EXCEPT !.paths = <<path>>, !.mode = arg[1],
                               !.empty_fallback = arg[2]],
                IF arg[1] \in ReadModes THEN {} ELSE {path}, "unknown",
                DVCFile(path, arg[2], arg[1]))

\* f.read() on an open read handle: the content of the in-memory stream.
DoRead ==
    /\ handle.state = "open"
    /\ handle.mode \in ReadModes
    /\ last' = [NoLast EXCEPT !.op = "read", !.paths = <<handle.path>>,
                              !.mode = handle.mode, !.stream = handle.stream,
                              !.before = client._repo_cache]
    /\ UNCHANGED <<client, wc, git, remote, handle, hist, other, fs>>

\* __exit__ once more on a read handle that was closed.
DoCloseAgain ==
    /\ handle.state = "closed"
    /\ handle.mode \in ReadModes
    /\ Settle(Exit(Begin, NoFault, client.temp_path, handle, None), "close",
              [NoLast EXCEPT !.paths = <<handle.path>>, !.mode = handle.mode],
              handle)

\* __enter__ once more on a read handle that was entered before, open or
\* closed.
DoReenter ==
    /\ HoldsReadHandle
    /\ Settle(Reenter(Begin, NoFault, handle), "reenter",
              [NoLast EXCEPT !.paths = <<handle.path>>, !.mode = handle.mode],
              handle)

\* dvc_open_clone(repo, path, existing_file_path=..., client=client) called
\* directly, with a local path that exists or one that does not.
DoOpenClone ==
    /\ Idle
    /\ \E path \in Paths, existing \in ExistingArgs,
          fault \in Faults \cup {NoFault} :
         Finish(DvcOpenClone(Begin, fault, path, FALSE, existing, FALSE),
                fault, "open_clone",
                [NoLast EXCEPT !.paths = <<path>>, !.existing = existing],
                {}, None, NoHandle)

\* Another Client of the same repository updates dir/b: its payload reaches
\* the blob remote, its commit the Git remote.  This Client's clone is not
\* told.
DoOtherPush ==
    /\ Idle
    /\ hist.commits < MaxCommits
    /\ \E skew \in ClockSkews :
         remote' = [remote EXCEPT
                      !.tree = Put(@, WithSuffix(PathB), PointerFor(OtherContent)),
                      !.blobs = @ \cup {OtherContent},
                      !.log = <<[id |-> hist.commits + 1,
                                 date |-> hist.commits + 1 + skew,
                                 touched |-> {WithSuffix(PathB)},
                                 message |-> <<"other">>]>> \o @]
    /\ hist' = [hist EXCEPT !.commits = @ + 1, !.ops = @ + 1,
                            !.status = Marked({PathB}, "unknown")]
    /\ last' = [NoLast EXCEPT !.op = "other", !.paths = <<PathB>>,
                              !.before = client._repo_cache]
    /\ handle' = NoHandle
    /\ UNCHANGED <<client, wc, git, other, fs>>

\* f.write(content) on an open write handle: the bytes reach the staging
\* file in the clone.
DoWrite ==
    /\ handle.state = "open"
    /\ handle.mode \notin ReadModes
    /\ handle.writes < MaxWrites
    /\ \E content \in InputContents :
         /\ wc' = [wc EXCEPT !.files[handle.path] = @ \o TextWrite(content)]
         /\ handle' = [handle EXCEPT !.wrote = @ \o content, !.writes = @ + 1]
         /\ last' = [NoLast EXCEPT !.op = "write", !.paths = <<handle.path>>,
                                   !.contents = <<content>>,
                                   !.before = client._repo_cache]
         /\ UNCHANGED <<client, git, remote, hist, other, fs>>

\* Leaving the with block, at its end or through an exception of the body:
\* DVCFile.__exit__(type, value, traceback).  last.err is what __exit__
\* itself raised.
DoClose ==
    /\ handle.state = "open"
    /\ \E type \in ExitTypes, fault \in Faults \cup {NoFault} :
         Finish(Exit(Begin, fault, client.temp_path, handle, type), fault,
                "close",
                [NoLast EXCEPT !.paths = <<handle.path>>, !.mode = handle.mode,
                               !.contents = <<handle.wrote>>, !.type = type],
                IF handle.mode \in ReadModes THEN {} ELSE {handle.path},
                "written",
                [handle EXCEPT !.state = IF handle.mode \in ReadModes
                                           THEN "closed" ELSE "new"])

Next ==
    \/ DoUpdate
    \/ DoRemove
    \/ DoExists
    \/ DoDownload
    \/ DoScanDir
    \/ DoListFiles
    \/ DoModifiedDate
    \/ DoCleanup
    \/ DoOpen
    \/ DoWrite
    \/ DoClose
    \/ DoOtherPush
    \/ DoCleanupRemote
    \/ DoOpenClone
    \/ DoRead
    \/ DoCloseAgain
    \/ DoReenter

Spec == Init /\ [][Next]_vars

----------------------------------------------------------------------------
(* The commit message alone: the function update and remove resolve it     *)
(* with, over every choice of its arguments.                               *)

\* dir/a: a path with the base name of a.
PathC == << <<"dir">>, <<"a">> >>

\* Non-empty lists of logical paths, of MaxBatch paths at most.
RECURSIVE ListsUpTo(_)
ListsUpTo(n) ==
    IF n = 0 THEN {<<>>}
    ELSE ListsUpTo(n - 1)
         \cup {Append(l, p) : l \in {x \in ListsUpTo(n - 1) : Len(x) = n - 1},
                              p \in {PathA, PathB, PathC}}

MessagePathLists == ListsUpTo(MaxBatch) \ {<<>>}

\* commit_message and commit_message_extra: left out, or given.
MessageArgs == {None, "msg"}
ExtraArgs == {None, "extra"}

\* DVCStringUpload sources for the paths, in order.
RECURSIVE UploadsOf(_)
UploadsOf(paths) ==
    IF paths = <<>> THEN <<>>
    ELSE <<StringUpload(Head(paths), <<>>)>> \o UploadsOf(Tail(paths))

\* The message update(updated_files, commit_message, commit_message_extra)
\* resolves.
DoUpdateMessage ==
    /\ \E paths \in MessagePathLists, cm \in MessageArgs, extra \in ExtraArgs :
         last' = [NoLast EXCEPT
                    !.op = "update_message", !.paths = paths,
                    !.commit_message = cm, !.commit_message_extra = extra,
                    !.message = UpdateMessage(UploadsOf(paths), cm, extra)]
    /\ UNCHANGED <<client, wc, git, remote, handle, hist, other, fs>>

\* The message remove(removed_files, commit_message, commit_message_extra)
\* resolves.
DoRemoveMessage ==
    /\ \E paths \in MessagePathLists, cm \in MessageArgs, extra \in ExtraArgs :
         last' = [NoLast EXCEPT
                    !.op = "remove_message", !.paths = paths,
                    !.commit_message = cm, !.commit_message_extra = extra,
                    !.message = RemoveMessage(paths, cm, extra)]
    /\ UNCHANGED <<client, wc, git, remote, handle, hist, other, fs>>

NextMessage == DoUpdateMessage \/ DoRemoveMessage

SpecMessage == Init /\ [][NextMessage]_vars

----------------------------------------------------------------------------
(* The claims.                                                             *)

\* The call just made wrote one path and returned: update of a one-source
\* batch, or the close of a write handle.
WroteOne ==
    /\ last.err = NoError
    /\ Len(last.paths) = 1
    /\ \/ last.op = "update"
       \/ last.op = "close" /\ last.mode \notin ReadModes

\* The call that follows opens the same path for reading and succeeds.
ReadsItNext ==
    /\ last'.op = "open"
    /\ last'.mode \in ReadModes
    /\ last'.paths = last.paths
    /\ last'.err = NoError

\* C1: after a successful write of content C to path p (update of one
\* source, or a write handle written with C and closed), the next read of p
\* on the same Client returns exactly C.
C1_RoundTrip ==
    [][WroteOne /\ ReadsItNext => last'.stream.data = last.contents[1]]_vars

\* A call whose single argument is a path that is not tracked by the
\* repository the run began with and that no call has tried to write.
OnNeverWritten(op) ==
    /\ last.op = op
    /\ Len(last.paths) = 1
    /\ last.paths[1] \in Paths
    /\ hist.status[last.paths[1]] = "never"

\* C2: for a path that was never written, exists returns false, and opening
\* it for reading raises DVCFileMissingError unless empty_fallback is set,
\* in which case the open succeeds and yields an empty stream.  A call whose
\* clone failed never reaches the path and is left aside.
C2_NeverWritten ==
    client._repo_cache # NoRepo =>
      /\ OnNeverWritten("exists") => last.err = NoError /\ last.flag = FALSE
      /\ OnNeverWritten("open") /\ last.mode \in ReadModes =>
            IF last.empty_fallback
              THEN /\ last.err = NoError
                   /\ handle.state = "open"
                   /\ last.stream = EmptyStream(last.mode \in BinaryModes)
              ELSE /\ last.err = DVCFileMissingError(last.paths[1])
                   /\ handle.state # "open"

\* An open for reading of a never written path has raised.
C2_Witness ==
    /\ OnNeverWritten("open")
    /\ last.mode \in ReadModes
    /\ ~last.empty_fallback
    /\ client._repo_cache # NoRepo
    /\ last.err.type = "DVCFileMissingError"

\* The last call was a method that needs the working copy.
NeedsWorkingCopy ==
    last.op \in {"open", "exists", "download", "scan_dir", "list_files",
                 "modified_date", "update", "remove", "close"}

\* C3: with no cleanup in between, the clone is performed exactly once: a
\* call that finds the cache initialised issues no clone and leaves the very
\* same cache handle, a call initialises the cache only from the
\* uninitialised state and with one clone, and at most one clone of the
\* Client is live at any time.
C3_CloneOnce ==
    /\ hist.live <= 1
    /\ (client._repo_cache # NoRepo) = (hist.live = 1)
    /\ NeedsWorkingCopy =>
         /\ CountCalls(last.calls, "clone") <= 1
         /\ last.before # NoRepo =>
               /\ client._repo_cache = last.before
               /\ CountCalls(last.calls, "clone") = 0
         /\ last.before = NoRepo /\ client._repo_cache # NoRepo =>
               CountCalls(last.calls, "clone") = 1

\* A third call in a row has found the cache the first one initialised.
C3_Witness ==
    /\ last.op = "scan_dir"
    /\ last.err = NoError
    /\ last.before # NoRepo
    /\ client._repo_cache = last.before
    /\ hist.ops = 3
    /\ hist.clones = 1

\* The last call was given an empty list.
EmptyBatch == last.op \in {"update", "remove", "download"} /\ last.paths = <<>>

\* C4: update([]), remove([]) and download([]) return at once with empty
\* result lists (remove returns None), make no clone, no executor call and
\* no Git call, and leave the cache as it was.
C4_BatchNoOp ==
    EmptyBatch =>
      /\ last.err = NoError
      /\ last.calls = <<>>
      /\ client._repo_cache = last.before
      /\ last.meta = NoMeta
      /\ last.files = <<>>
      /\ last.sizes = <<>>
      /\ last.delivered = <<>>

\* update([]) has returned on a Client whose cache was never initialised.
C4_Witness ==
    /\ last.op = "update"
    /\ last.paths = <<>>
    /\ last.before = NoRepo
    /\ client._repo_cache = NoRepo
    /\ hist.clones = 0

\* The last call was exists(p) and it returned.
ExistsReturned(p) ==
    last.op = "exists" /\ last.paths = <<p>> /\ last.err = NoError

\* The entries of the last scan name the file p.
Lists(p) ==
    \E i \in 1..Len(last.entries) :
        last.entries[i].path = p /\ ~last.entries[i].is_dir

\* C5: a path whose last write was followed by a successful remove reports
\* exists = false and is in no scan_dir result until it is written again;
\* a path whose last call was a successful write reports exists = true, and
\* a successful remove leaves the pointer files of the other written paths
\* in the working copy, and on the Git remote when its push was accepted.
C5_RemoveThenExists ==
    \A p \in Paths :
      /\ ExistsReturned(p) /\ hist.status[p] = "removed" => last.flag = FALSE
      /\ ExistsReturned(p) /\ hist.status[p] = "written" => last.flag = TRUE
      /\ last.op = "scan_dir" /\ last.err = NoError
            /\ hist.status[p] = "removed" => ~Lists(p)
      /\ last.op = "remove" /\ last.paths # <<>> /\ last.err = NoError
            /\ hist.status[p] = "written" =>
              /\ IsFile(wc, WithSuffix(p))
              /\ remote.log = git.log => WithSuffix(p) \in DOMAIN remote.tree

\* update([a, dir/b]), remove([a]), then exists(a) has returned false.
C5_Witness ==
    /\ ExistsReturned(PathA)
    /\ last.flag = FALSE
    /\ hist.status[PathA] = "removed"
    /\ hist.status[PathB] = "written"
    /\ hist.commits = 3

\* The last call was scan_dir and it returned.
ScanReturned == last.op = "scan_dir" /\ last.err = NoError

\* The immediate children of the directory the last scan resolved.
Children == Listdir(wc, JoinClone(StripLeadingSep(last.scan)))

\* A child's path with the last token of its name taken off.
Stripped(c) == [c EXCEPT ![Len(c)] = Front(@)]

DirEntry(c) ==
    [path |-> c, name |-> Basename(c), dvc_repo |-> RepoUrl, is_dir |-> TRUE]

FileEntry(c) ==
    [path |-> Stripped(c), name |-> Basename(Stripped(c)),
     dvc_repo |-> RepoUrl, is_dir |-> FALSE]

\* One entry per listed subdirectory and per file of the set given.
EntriesFor(files) ==
    {DirEntry(c) : c \in {d \in Children :
                             /\ IsDir(wc, d)
                             /\ Basename(d) \notin {GitDir, DvcDir}}}
    \cup {FileEntry(c) : c \in files}

\* The last scan returned one entry for each member of the set, no other.
ScanYields(expected) ==
    /\ Range(last.entries) = expected
    /\ Len(last.entries) = Cardinality(expected)

RECURSIVE ScanFiles(_, _)
ScanFiles(w, dir) ==
    LET found == Range(ScanDir(w, dir).entries)
    IN  {e.path : e \in {x \in found : ~x.is_dir}}
        \cup UNION {ScanFiles(w, e.path) : e \in {x \in found : x.is_dir}}

\* Every write and remove so far has returned, and no write handle was
\* opened without a close that returned.
OnlySuccessfulWrites ==
    hist.clean /\ \A p \in Paths : hist.status[p] # "unknown"

\* The paths last written (or tracked when the run began) and not removed.
WrittenNotRemoved == {p \in Paths : hist.status[p] \in {"written", "initial"}}

\* C7: after successful writes and removes only, the file entries reached
\* by scanning recursively from the root are exactly the logical paths that
\* were written and not removed since: none once all are removed, and no
\* payload file or tool file is among them.
C7_RecursiveScan ==
    ScanReturned /\ last.scan = <<Dot>> /\ OnlySuccessfulWrites =>
      ScanFiles(wc, <<Dot>>) = WrittenNotRemoved

\* The root has been scanned after a and dir/b were written and a removed:
\* the payload of a is still in the working copy.
C7_Witness ==
    /\ ScanReturned
    /\ last.scan = <<Dot>>
    /\ OnlySuccessfulWrites
    /\ hist.status[PathA] = "removed"
    /\ hist.status[PathB] = "written"
    /\ IsFile(wc, PathA)
    /\ ScanFiles(wc, <<Dot>>) = {PathB}

\* The calls of the last operation after the clone it may have begun with.
AfterClone ==
    IF last.calls # <<>> /\ Head(last.calls).c = "clone"
      THEN Tail(last.calls) ELSE last.calls

\* Per path in order: the write (when the source is copied) and the add.
RECURSIVE AddSteps(_, _)
AddSteps(paths, copied) ==
    IF paths = <<>> THEN <<>>
    ELSE (IF copied THEN <<CallRec("write", Head(paths))>> ELSE <<>>)
         \o <<CallRec("dvc add", Head(paths))>>
         \o AddSteps(Tail(paths), copied)

\* Per path in order: the index add of its pointer file.
RECURSIVE StageSteps(_)
StageSteps(paths) ==
    IF paths = <<>> THEN <<>>
    ELSE <<CallRec("index.add", WithSuffix(Head(paths)))>>
         \o StageSteps(Tail(paths))

UpdateSteps(paths, copied) ==
    AddSteps(paths, copied)
    \o <<CallRec("dvc push", <<>>)>>
    \o StageSteps(paths)
    \o <<CallRec("commit", <<>>), CallRec("git push", <<>>)>>

\* The last call ran update on a non-empty batch: update itself, or the
\* close of a write handle, whose source is the staging file and is not
\* copied.
RanUpdate ==
    \/ last.op = "update" /\ last.paths # <<>>
    \/ last.op = "close" /\ last.mode \notin ReadModes

\* C8: a successful update of a non-empty batch makes, in this order, for
\* each source in input order the write of its bytes (when its policy says
\* so) and one dvc add, then one dvc push, then the index add of every
\* pointer file, then one commit, then one Git push; in no update, failed
\* ones included, does a commit or a Git push come before the dvc push.
C8_UpdateOrder ==
    RanUpdate =>
      /\ last.err = NoError =>
            AfterClone = UpdateSteps(last.paths, last.op = "update")
      /\ \A i \in 1..Len(last.calls) :
            last.calls[i].c \in {"commit", "git push"} =>
              \E j \in 1..(i - 1) : last.calls[j].c = "dvc push"

\* update of two sources has returned.
C8_Witness ==
    /\ last.op = "update"
    /\ last.err = NoError
    /\ last.paths = <<PathA, PathB>>
    /\ Len(AfterClone) = 9

\* The last call made by the last operation failed, and it was one of the
\* kinds given.
FailedAt(kinds) ==
    /\ last.err # NoError
    /\ last.calls # <<>>
    /\ Last(last.calls).c \in kinds

\* What the i-th source of the last update has left behind: its payload
\* and its pointer file in the working copy, its payload on the blob remote.
Kept(i) ==
    LET p == last.paths[i]
        bytes == TextWrite(last.contents[i])
    IN  /\ IsFile(wc, p) /\ wc.files[p] = bytes
        /\ IsFile(wc, WithSuffix(p)) /\ wc.files[WithSuffix(p)] = PointerFor(bytes)
        /\ bytes \in remote.blobs

\* C9: when index add, commit or Git push fails with a Git error during
\* update, the call raises one DVCGitUpdateError that carries the repository
\* URL, all the logical paths of the batch and the cause; the payloads
\* written, the pointer files dvc add made and the blobs pushed stay.
C9_UpdateGitError ==
    RanUpdate /\ FailedAt({"index.add", "commit", "git push"}) =>
      /\ last.err = Error("DVCGitUpdateError", RepoUrl, last.paths, "GitError")
      /\ \A i \in 1..Len(last.paths) : Kept(i)

\* update of two sources has raised DVCGitUpdateError at the commit.
C9_Witness ==
    /\ last.op = "update"
    /\ last.paths = <<PathA, PathB>>
    /\ FailedAt({"commit"})
    /\ last.err.type = "DVCGitUpdateError"
    /\ Kept(1) /\ Kept(2)

\* C10: when staging the pointer-file deletions, the commit or the Git push
\* fails with a Git error during remove, the call raises a DVCGitUpdateError
\* that carries the list of paths given and the Git error, as update does.
C10_RemoveGitError ==
    last.op = "remove" /\ FailedAt({"index.remove", "commit", "git push"}) =>
      last.err = Error("DVCGitUpdateError", RepoUrl, last.paths, "GitError")

\* C11: whenever update returns a result instead of raising, the commit its
\* result names is in the history of the Git remote, the pointer file of
\* every source is in the remote's tree and every payload of the batch is on
\* the blob remote, also when another Client pushed in between.
C11_PushedOnSuccess ==
    RanUpdate /\ last.err = NoError =>
      /\ \E i \in 1..Len(remote.log) : remote.log[i].id = last.meta.commit_hexsha
      /\ \A i \in 1..Len(last.paths) :
            /\ WithSuffix(last.paths[i]) \in DOMAIN remote.tree
            /\ HashIn(wc.files[WithSuffix(last.paths[i])]) \in remote.blobs

\* C12: cleanup on a Client whose cache is not initialised changes nothing
\* and raises nothing, and every cleanup leaves the cache uninitialised with
\* no temporary directory alive: a second cleanup in a row is such a no-op.
C12_CleanupIdempotent ==
    [][last'.op = "cleanup" =>
         /\ last'.err = NoError
         /\ client'._repo_cache = NoRepo
         /\ wc' = NoTree
         /\ hist'.live = 0
         /\ remote' = remote
         /\ client._repo_cache = NoRepo =>
               /\ client' = client
               /\ wc' = wc
               /\ git' = git
               /\ hist'.live = hist.live
               /\ hist'.clones = hist.clones]_vars

\* A call that cloned, cleanup, and cleanup again: the third call of the run
\* found the cache already dropped.
C12_Witness ==
    /\ last.op = "cleanup"
    /\ last.before = NoRepo
    /\ hist.ops = 3
    /\ hist.clones = 1
    /\ hist.faults = 0
    /\ hist.commits = 1

\* The last call was an operation of the Client that works on the clone,
\* given something to work on.
WorksOnClone ==
    /\ last.op \in {"open", "exists", "download", "scan_dir", "list_files",
                    "modified_date", "update", "remove", "cleanup_remote"}
    /\ ~EmptyBatch

\* C13: the operations are safe in any order: an operation that finds the
\* cache uninitialised (after construction or after cleanup) initialises it
\* with one clone made first, unless the clone itself fails, and the cache
\* handle a Client holds is always that of its latest clone, whose temporary
\* directory is alive.
C13_AnyOrder ==
    /\ client._repo_cache # NoRepo =>
         /\ hist.live = 1
         /\ client._repo_cache.clone_path.n = hist.clones
    /\ WorksOnClone /\ last.before = NoRepo /\ ~FailedAt({"clone"}) =>
         /\ client._repo_cache # NoRepo
         /\ CountCalls(last.calls, "clone") = 1
         /\ Head(last.calls).c = "clone"

\* C14: exists(p) returns true when the read-mode open succeeds (pointer
\* file in the clone and payload there after the pull) and false when the
\* pointer file is not there or the payload is absent after the pull; it
\* never raises DVCFileMissingError; a failure of the clone, of the version
\* check or of the pull command reaches the caller as the error it is, never
\* as false, and exists raises nothing else.
C14_ExistsErrors ==
    [][last'.op = "exists" =>
         /\ last'.err = NoError =>
               last'.flag = (/\ IsFile(wc', WithSuffix(last'.paths[1]))
                             /\ IsFile(wc', last'.paths[1]))
         /\ last'.err.type # "DVCFileMissingError"
         /\ hist'.faults = hist.faults => last'.err = NoError
         /\ hist'.faults > hist.faults =>
               IF last'.fault \in VersionFaultKinds
                 THEN /\ last'.err.type = last'.fault
                      /\ CountCalls(last'.calls, "dvc pull") = 0
                 ELSE /\ Last(last'.calls).c \in {"clone", "dvc pull"}
                      /\ last'.err.type =
                            IF Last(last'.calls).c = "clone"
                              THEN "DVCGitRepoNotAccessibleError"
                              ELSE "DVCCliCommandError"]_vars

\* exists has returned false for a path whose pointer file is in the clone
\* and whose payload the pull did not bring.
C14_Witness ==
    /\ last.op = "exists"
    /\ last.err = NoError
    /\ last.flag = FALSE
    /\ Last(last.calls).c = "dvc pull"
    /\ IsFile(wc, WithSuffix(last.paths[1]))
    /\ ~IsFile(wc, last.paths[1])

\* The commits of the clone's history that touch the pointer file of one of
\* the paths of the last call.
Matches ==
    {i \in 1..Len(git.log) :
        git.log[i].touched \cap WithSuffixAll(last.paths) # {}}

\* C15 as stated: modified_date returns the greatest committed_date among
\* the commits that touch one of the pointer files, whatever the order of
\* the history.
C15_MaxDate ==
    last.op = "modified_date" /\ last.err = NoError =>
      /\ Matches # {}
      /\ \A i \in Matches : git.log[i].date <= last.date
      /\ \E i \in Matches : git.log[i].date = last.date

\* C16: when no commit of the history touches any of the given pointer
\* files, modified_date raises (the IndexError of commits[0]) and returns no
\* timestamp.
C16_NoMatchFails ==
    /\ last.op = "modified_date" /\ client._repo_cache # NoRepo /\ Matches = {} =>
         /\ last.err.type = "IndexError"
         /\ last.date = 0
    /\ last.op = "modified_date" /\ last.err = NoError => last.date > 0

\* modified_date of a path no commit touches has raised, on a clone whose
\* history has commits.
C16_Witness ==
    /\ last.op = "modified_date"
    /\ last.paths = <<PathA>>
    /\ Len(git.log) >= 2
    /\ Matches = {}
    /\ last.err.type = "IndexError"

\* The number of pieces of the message before the extra: the prefix, the
\* base names and the separators between them, or the one message given.
BodyLen ==
    IF last.commit_message = None THEN 2 * Len(last.paths) ELSE 1

\* C17: the message resolved for update and for remove is, when none is
\* given, the fixed prefix and then the base names of the paths in input
\* order with ", " between them, and the message given otherwise; the extra,
\* when given, follows after a newline in both cases, and nothing else is in
\* the message.
C17_CommitMessage ==
    last.op \in {"update_message", "remove_message"} =>
      /\ last.commit_message = None =>
            /\ last.message[1] = IF last.op = "update_message"
                                   THEN UpdatePrefix ELSE RemovePrefix
            /\ \A i \in 1..Len(last.paths) :
                  last.message[2 * i] = Last(last.paths[i])
            /\ \A i \in 1..(Len(last.paths) - 1) :
                  last.message[2 * i + 1] = ", "
      /\ last.commit_message # None => last.message[1] = last.commit_message
      /\ last.commit_message_extra = None => Len(last.message) = BodyLen
      /\ last.commit_message_extra # None =>
            /\ Len(last.message) = BodyLen + 2
            /\ last.message[BodyLen + 1] = "\n"
            /\ last.message[BodyLen + 2] = last.commit_message_extra

\* The default message of update for dir/b and a, with an extra.
C17_Witness ==
    /\ last.op = "update_message"
    /\ last.paths = <<PathB, PathA>>
    /\ last.message = <<UpdatePrefix, <<"b">>, ", ", <<"a">>, "\n", "extra">>

\* Per path in order: the dvc remove of its pointer file.
RECURSIVE UntrackSteps(_)
UntrackSteps(paths) ==
    IF paths = <<>> THEN <<>>
    ELSE <<CallRec("dvc remove", Head(paths))>> \o UntrackSteps(Tail(paths))

\* Per path in order: the index remove of its pointer file.
RECURSIVE UnstageSteps(_)
UnstageSteps(paths) ==
    IF paths = <<>> THEN <<>>
    ELSE <<CallRec("index.remove", WithSuffix(Head(paths)))>>
         \o UnstageSteps(Tail(paths))

RemoveSteps(paths) ==
    UntrackSteps(paths)
    \o <<CallRec("dvc push", <<>>)>>
    \o UnstageSteps(paths)
    \o <<CallRec("commit", <<>>), CallRec("git push", <<>>)>>

\* The step is a remove of a non-empty list.
RemoveStep == last'.op = "remove" /\ last'.paths # <<>>

\* A successful remove makes one dvc remove per path in input order, one dvc
\* push, the index remove of every pointer file, one commit and one Git
\* push, in this order.
RemoveOrder ==
    last'.err = NoError => AfterClone' = RemoveSteps(last'.paths)

\* C18 as stated: the calls of remove are in the order given and the blob
\* remote holds the same payloads before and after remove.
C18_AsStated ==
    [][RemoveStep => RemoveOrder /\ remote'.blobs = remote.blobs]_vars

\* C18: the calls of remove are in the order given and remove takes no
\* payload off the blob remote; what its dvc push adds are payloads of the
\* clone's cache (left there by an earlier call whose push failed), so that
\* the blob remote is the same before and after when the cache holds nothing
\* the blob remote lacks.
C18_RemoveFrame ==
    [][RemoveStep =>
         /\ RemoveOrder
         /\ remote.blobs \subseteq remote'.blobs
         /\ remote'.blobs \ remote.blobs \subseteq wc.cache
         /\ wc.cache \subseteq remote.blobs => remote'.blobs = remote.blobs]_vars

\* remove of dir/b and a has returned; the payload of a is still on the blob
\* remote.
C18_Witness ==
    /\ last.op = "remove"
    /\ last.err = NoError
    /\ last.paths = <<PathB, PathA>>
    /\ Len(AfterClone) = 7
    /\ ~IsFile(wc, WithSuffix(PathA))
    /\ <<"x">> \in remote.blobs

\* The step is an update of a non-empty batch (update itself, or the close
\* of a write handle) that returns.
UpdateReturns ==
    /\ \/ last'.op = "update" /\ last'.paths # <<>>
       \/ last'.op = "close" /\ last'.mode \notin ReadModes
    /\ last'.err = NoError

\* C19: a successful update of a non-empty batch returns a result whose
\* requested list and updated list are the logical paths of the sources in
\* input order, and whose commit id and timestamp are those of the one
\* commit the call made, the newest of the clone's history.
C19_UpdateResult ==
    [][UpdateReturns =>
         /\ last'.meta.dvc_files_update_requested = last'.paths
         /\ last'.meta.dvc_files_updated = last'.paths
         /\ CountCalls(last'.calls, "commit") = 1
         /\ hist'.commits = hist.commits + 1
         /\ git'.log[1].id = hist'.commits
         /\ last'.meta.commit_hexsha = git'.log[1].id
         /\ last'.meta.committed_date = git'.log[1].date]_vars

\* The second update of a run has returned the result of its own commit.
C19_Witness ==
    /\ last.op = "update"
    /\ last.err = NoError
    /\ last.meta.dvc_files_updated = <<PathA, PathB>>
    /\ last.meta.commit_hexsha = 3
    /\ git.log[2].id = 2
    /\ hist.clones = 1

\* Per target in order: the pull of its payload when its pointer file is in
\* the clone, then the write of the target.
RECURSIVE DownloadSteps(_)
DownloadSteps(paths) ==
    IF paths = <<>> THEN <<>>
    ELSE (IF IsFile(wc, WithSuffix(Head(paths)))
            THEN <<CallRec("dvc pull", Head(paths))>> ELSE <<>>)
         \o <<CallRec("target.write", Head(paths))>>
         \o DownloadSteps(Tail(paths))

\* What a read of the path yields after the open: the payload in the clone
\* through the text-mode read, or nothing when there is no payload.
ReadOf(p) ==
    IF IsFile(wc, WithSuffix(p)) /\ IsFile(wc, p)
      THEN TextRead(wc.files[p]) ELSE <<>>

\* The first k targets of the last download were written, each once and in
\* order, with the content read for it.
DeliveredFirst(k) ==
    /\ Len(last.delivered) = k
    /\ \A i \in 1..k :
          last.delivered[i] = [path |-> last.paths[i],
                               content |-> ReadOf(last.paths[i])]

\* C20: download takes the targets one after the other in input order: the
\* pull and the write of one target come before those of the next; a
\* download that returns has written every target once, its file list is
\* the list of the targets' paths and its i-th size the length of the
\* content written to the i-th target; a download that raises at a target
\* has written the targets before it and none from it on.
C20_DownloadOrder ==
    last.op = "download" /\ last.paths # <<>> =>
      /\ last.err = NoError =>
            /\ AfterClone = DownloadSteps(last.paths)
            /\ DeliveredFirst(Len(last.paths))
            /\ last.files = last.paths
            /\ Len(last.sizes) = Len(last.paths)
            /\ \A i \in 1..Len(last.paths) :
                  last.sizes[i] = Len(last.delivered[i].content)
      /\ last.err # NoError =>
            \E k \in 1..Len(last.paths) :
               /\ DeliveredFirst(k - 1)
               /\ \/ AfterClone = DownloadSteps(SubSeq(last.paths, 1, k - 1))
                  \/ AfterClone = DownloadSteps(SubSeq(last.paths, 1, k - 1))
                                  \o <<CallRec("dvc pull", last.paths[k])>>

\* download of dir/b and a has raised at a, which is not tracked, after
\* dir/b was written.
C20_Witness ==
    /\ last.op = "download"
    /\ last.paths = <<PathB, PathA>>
    /\ last.err = DVCFileMissingError(PathA)
    /\ DeliveredFirst(1)
    /\ last.delivered[1].content # <<>>

\* The call that ends here was a read-mode open whose cache was ensured.
ReadOpened ==
    /\ last'.op = "open"
    /\ last'.mode \in ReadModes
    /\ client'._repo_cache # NoRepo

\* The empty-fallback-or-fail branch was taken for the path p.
TookMissingBranch(p) ==
    IF last'.empty_fallback
      THEN /\ last'.err = NoError
           /\ handle'.state = "open"
           /\ handle'.stream = EmptyStream(last'.mode \in BinaryModes)
      ELSE /\ last'.err = DVCFileMissingError(p)
           /\ handle'.state # "open"

\* C21: a read-mode open of p whose cache is ensured issues no pull when
\* the pointer file of p is absent and ends in the empty stream
\* (empty_fallback) or DVCFileMissingError; when the pointer file is present
\* it issues exactly one pull, of p, and nothing else; when that pull
\* returns and the payload is still absent it ends in the same branch, and
\* otherwise in the stream of the payload.
C21_ReadOpen ==
    [][ReadOpened =>
         LET p == last'.paths[1]
             calls == IF last'.calls # <<>> /\ Head(last'.calls).c = "clone"
                        THEN Tail(last'.calls) ELSE last'.calls
         IN  IF ~IsFile(wc', WithSuffix(p))
               THEN calls = <<>> /\ TookMissingBranch(p)
             ELSE IF last'.err.type \in VersionFaultKinds
               THEN calls = <<>> /\ handle'.state # "open"
             ELSE /\ calls = <<CallRec("dvc pull", p)>>
                  /\ IF last'.err = CliError("dvc pull", p)
                       THEN handle'.state # "open"
                     ELSE IF ~IsFile(wc', p) THEN TookMissingBranch(p)
                     ELSE /\ last'.err = NoError
                          /\ handle'.stream =
                               StreamOf(wc'.files[p], last'.mode \in BinaryModes)]_vars

\* dir/b, whose payload is not on the blob remote, was opened for reading
\* with empty_fallback: one pull of dir/b, no payload, the empty stream.
C21_Witness ==
    /\ last.op = "open"
    /\ last.mode = "r"
    /\ last.empty_fallback
    /\ last.paths = <<PathB>>
    /\ AfterClone = <<CallRec("dvc pull", PathB)>>
    /\ IsFile(wc, WithSuffix(PathB))
    /\ ~IsFile(wc, PathB)
    /\ last.err = NoError
    /\ handle.stream = EmptyStream(FALSE)

\* The step closes the write-mode handle the caller holds.
ClosesWriteHandle ==
    /\ handle.state = "open"
    /\ handle.mode \notin ReadModes
    /\ last'.op = "close"

\* C22: closing a write-mode handle runs update once on the one staged
\* file: a close that returns has made exactly one dvc add of the path, one
\* dvc push, the index add of its pointer file, one commit and one Git push,
\* in this order and nothing else, written or not; no close makes one of
\* these calls twice; a call that fails during the close makes the close
\* raise the error update raises.
C22_CloseUpdates ==
    [][ClosesWriteHandle =>
         /\ last'.err = NoError =>
               /\ last'.calls = UpdateSteps(<<handle.path>>, FALSE)
               /\ hist'.commits = hist.commits + 1
               /\ handle'.state = "new"
         /\ \A k \in {"dvc add", "dvc push", "index.add", "commit", "git push"} :
               CountCalls(last'.calls, k) <= 1
         /\ \A i \in 1..Len(last'.calls) :
               /\ last'.calls[i].c = "dvc add" => last'.calls[i].arg = handle.path
               /\ last'.calls[i].c # "clone"
         /\ hist'.faults > hist.faults =>
               last'.err.type \in {"DVCCliCommandError", "DVCGitUpdateError"}
                                   \cup VersionFaultKinds]_vars

\* A write handle was opened and closed with nothing written in between,
\* and the close has committed and pushed.
C22_Witness ==
    /\ last.op = "close"
    /\ last.mode = "w"
    /\ last.contents = <<<<>>>>
    /\ last.err = NoError
    /\ last.calls = UpdateSteps(last.paths, FALSE)
    /\ handle.state = "new"
    /\ hist.commits = 2

\* C23: the update of a write-mode close runs also when the body of the
\* with block raised: such a close that returns has made the dvc add, the
\* dvc push, the index add, the commit and the Git push of the path, and
\* the pointer file committed names the bytes staged when the body raised,
\* which are on the blob remote.
C23_CommitOnErrorPath ==
    [][ClosesWriteHandle /\ last'.type # None /\ last'.err = NoError =>
         /\ last'.calls = UpdateSteps(<<handle.path>>, FALSE)
         /\ hist'.commits = hist.commits + 1
         /\ git'.head[WithSuffix(handle.path)] =
               PointerFor(wc.files[handle.path])
         /\ wc.files[handle.path] \in remote'.blobs]_vars

\* The body wrote "x" and raised; the close has committed the pointer file
\* of the bytes staged.
C23_Witness ==
    /\ last.op = "close"
    /\ last.mode = "w"
    /\ last.type = "BodyError"
    /\ last.contents = <<<<"x">>>>
    /\ last.err = NoError
    /\ last.calls = UpdateSteps(last.paths, FALSE)
    /\ git.head[WithSuffix(last.paths[1])] = PointerFor(<<"x">>)

\* The call that ends here was a write-mode open whose cache was ensured.
WriteOpened ==
    /\ last'.op = "open"
    /\ last'.mode \notin ReadModes
    /\ client'._repo_cache # NoRepo

\* C24: a write-mode open of p whose cache is ensured pulls p, once and
\* nothing else, exactly when the pointer file of p is in the working copy;
\* after that it makes the parent directories and opens the staging file at
\* p in the clone, so that a payload the blob remote holds has been fetched
\* before the staging file is opened; an open whose pull fails opens no
\* staging file.
C24_WriteOpen ==
    [][WriteOpened =>
         LET p == last'.paths[1]
             calls == IF last'.calls # <<>> /\ Head(last'.calls).c = "clone"
                        THEN Tail(last'.calls) ELSE last'.calls
             tracked == IsFile(wc', WithSuffix(p))
         IN  IF last'.err = NoError
               THEN /\ calls = (IF tracked THEN <<CallRec("dvc pull", p)>>
                                          ELSE <<>>)
                                \o <<CallRec("mkdir", Dirname(p)),
                                     CallRec("open", p)>>
                    /\ handle'.state = "open"
                    /\ IsFile(wc', p)
                    /\ IsDir(wc', Dirname(p))
                    /\ tracked /\ HashIn(wc'.files[WithSuffix(p)]) \in remote.blobs
                          => HashIn(wc'.files[WithSuffix(p)]) \in wc'.cache
               ELSE /\ tracked
                    /\ \/ /\ calls = <<CallRec("dvc pull", p)>>
                          /\ last'.err = CliError("dvc pull", p)
                       \/ /\ calls = <<>>
                          /\ last'.err.type \in VersionFaultKinds
                    /\ handle'.state # "open"]_vars

\* a, tracked with its payload on the blob remote, was opened for writing:
\* the pull fetched the payload, then the staging file was opened.
C24_Witness ==
    /\ last.op = "open"
    /\ last.mode = "w"
    /\ last.paths = <<PathA>>
    /\ last.err = NoError
    /\ AfterClone = <<CallRec("dvc pull", PathA), CallRec("mkdir", <<>>),
                      CallRec("open", PathA)>>
    /\ <<"x">> \in wc.cache
    /\ handle.state = "open"

\* C25: the clone a Client constructed with a temp_path holds lies in a
\* temporary directory under that temp_path, in its "repo" subdirectory,
\* whichever operation initialised the cache.
C25_CloneUnderTempRoot ==
    client._repo_cache # NoRepo =>
      /\ client._repo_cache.temp_dir.root = client.temp_path
      /\ client._repo_cache.clone_path =
            Place(client.temp_path, client._repo_cache.temp_dir.n, "repo")

\* C26: when dvc_open_clone is given an existing_file_path that exists on
\* disk, clone_repo makes no clone and raises nothing of its own, and the
\* cache handle it returns has its clone path, its executor handle and its
\* Git handle bound to that path.
C26_BindsExisting ==
    last.op = "open_clone" /\ last.existing \in LocalRepos =>
      /\ CountCalls(last.calls, "clone") = 0
      /\ last.err.type \in {None, "DVCFileMissingError", "DVCCliCommandError"}
                           \cup VersionFaultKinds
      /\ client._repo_cache.clone_path = Place(last.existing, 0, "")
      /\ client._repo_cache.repo = Place(last.existing, 0, "")
      /\ client._repo_cache.dvc = Place(last.existing, 0, "")

\* The call that ends here cannot do without the working copy.
NeedsClone ==
    \/ last'.op \in {"open", "exists", "scan_dir", "list_files", "modified_date"}
    \/ last'.op \in {"update", "remove", "download"} /\ last'.paths # <<>>
    \/ last'.op = "open_clone" /\ last'.existing \notin LocalRepos

CloneFailed == Error("DVCGitRepoNotAccessibleError", RepoUrl, <<>>, "GitError")

\* C27: a call whose clone fails raises DVCGitRepoNotAccessibleError with
\* the repository URL and the cause, has made the one clone attempt and no
\* other call, and leaves the cache uninitialised; the call after it that
\* needs the working copy begins with a clone of its own, which initialises
\* the cache unless it fails too.
C27_CloneFailure ==
    /\ [][last'.fault = "clone" =>
            /\ last'.err = CloneFailed
            /\ last'.calls = <<CallRec("clone", <<>>)>>
            /\ client._repo_cache = NoRepo
            /\ client'._repo_cache = NoRepo
            /\ hist'.clones = hist.clones
            /\ wc' = wc /\ git' = git /\ remote' = remote]_vars
    /\ [][last.err = CloneFailed /\ NeedsClone =>
            /\ last'.calls # <<>>
            /\ Head(last'.calls) = CallRec("clone", <<>>)
            /\ CountCalls(last'.calls, "clone") = 1
            /\ last'.fault # "clone" =>
                  /\ hist'.clones = hist.clones + 1
                  /\ client'._repo_cache # NoRepo]_vars

\* The first call of the run failed at its clone, the second one has made
\* the clone and returned.
C27_Witness ==
    /\ hist.ops = 2
    /\ hist.faults = 1
    /\ hist.clones = 1
    /\ last.before = NoRepo
    /\ last.fault = None
    /\ last.op = "update"
    /\ last.err = NoError
    /\ Head(last.calls) = CallRec("clone", <<>>)
    /\ client._repo_cache # NoRepo

\* The executor commands update and remove run.
BatchCommands == {"dvc add", "dvc remove", "dvc push"}

GitCalls == {"index.add", "index.remove", "commit", "git push"}

\* The step is an update or a remove of a non-empty batch, the close of a
\* write handle included.
BatchStep ==
    \/ last'.op \in {"update", "remove"} /\ last'.paths # <<>>
    \/ last'.op = "close" /\ last'.mode \notin ReadModes

\* The step ended at an executor command that failed: the last thing the
\* shell ran was a command of the batch, and it was the last call made.
CommandFailed ==
    /\ last'.err # NoError
    /\ last'.calls # <<>>
    /\ last'.shell # <<>>
    /\ Last(last'.shell).c \in BatchCommands
    /\ Last(last'.calls) = Last(last'.shell)

\* The executor commands the batch of the step is to run, in order.
BatchCommandSteps ==
    (IF last'.op = "remove" THEN UntrackSteps(last'.paths)
     ELSE AddSteps(last'.paths, last'.op = "update"))
    \o <<CallRec("dvc push", <<>>)>>

\* C28: when a dvc add, a dvc remove or the dvc push of an update or a
\* remove fails, the call raises the DVCCliCommandError of that command as
\* it is; the calls made are the batch's commands up to the failed one, so
\* that the sources after it are not touched; there is no index call, no
\* commit and no Git push, and the clone's index and history and the Git
\* remote are as they were.
C28_CommandError ==
    [][BatchStep =>
         /\ last'.fault \in BatchCommands => CommandFailed
         /\ CommandFailed =>
               /\ last'.err = CliError(Last(last'.calls).c, Last(last'.calls).arg)
               /\ \A i \in 1..Len(last'.calls) : last'.calls[i].c \notin GitCalls
               /\ IsPrefix(IF Head(last'.calls).c = "clone"
                             THEN Tail(last'.calls) ELSE last'.calls,
                           BatchCommandSteps)
               /\ IF client._repo_cache # NoRepo
                     THEN git' = git
                     ELSE git' = [index |-> remote.tree, head |-> remote.tree,
                                  log |-> remote.log]
               /\ remote'.tree = remote.tree
               /\ remote'.log = remote.log
               /\ hist'.commits = hist.commits]_vars

\* update of a and dir/b has raised the error of the dvc add of a; dir/b
\* was not written.
C28_Witness ==
    /\ last.op = "update"
    /\ last.paths = <<PathA, PathB>>
    /\ last.err = CliError("dvc add", PathA)
    /\ AfterClone = <<CallRec("write", PathA), CallRec("dvc add", PathA)>>
    /\ ~IsFile(wc, PathB)
    /\ ~IsFile(wc, WithSuffix(PathA))

\* The executor subcommands of the model.
Subcommands == {"dvc add", "dvc remove", "dvc pull", "dvc push"}

IsSubcommand(call) == call.c \in Subcommands

\* C29: every executor subcommand of a call was run through the shell right
\* after a version check of its own; when the version check raises, the
\* call raises DVCMissingExecutableError or DVCInvalidVersion, the check is
\* the last thing the shell ran and the subcommand it guarded was not run;
\* these two errors come from nowhere else.
C29_VersionCheckFirst ==
    /\ \A i \in 1..Len(last.shell) :
          IsSubcommand(last.shell[i]) =>
            i > 1 /\ last.shell[i - 1] = CallRec("dvc version", <<>>)
    /\ SelectSeq(last.calls, IsSubcommand) = SelectSeq(last.shell, IsSubcommand)
    /\ last.fault \in VersionFaultKinds =>
          /\ last.err.type \in VersionFaultKinds
          /\ Last(last.shell) = CallRec("dvc version", <<>>)
          /\ CountCalls(last.shell, "dvc version")
               = Len(SelectSeq(last.calls, IsSubcommand)) + 1
    /\ last.err.type \in VersionFaultKinds => last.fault \in VersionFaultKinds

\* update of a and dir/b: the version check before the dvc add of dir/b has
\* raised, after a was added.
C29_Witness ==
    /\ last.op = "update"
    /\ last.paths = <<PathA, PathB>>
    /\ last.err.type = "DVCInvalidVersion"
    /\ last.shell = <<CallRec("dvc version", <<>>), CallRec("dvc add", PathA),
                      CallRec("dvc version", <<>>)>>
    /\ AfterClone = <<CallRec("write", PathA), CallRec("dvc add", PathA),
                      CallRec("write", PathB)>>
    /\ ~IsFile(wc, WithSuffix(PathB))

\* C30: on a read-mode handle that was entered, a read, a close, a second
\* close and a second enter make no clone, no pull and no other call and
\* leave the Client, the working copy, the clone and the remotes as they
\* are; the stream the handle holds stays the one of the open, a read
\* yields it, and a close raises nothing, the second one included.
C30_ReadHandleInMemory ==
    [][HoldsReadHandle /\ last'.op \in {"read", "close", "reenter"} =>
         /\ last'.calls = <<>>
         /\ last'.shell = <<>>
         /\ client' = client /\ wc' = wc /\ git' = git /\ remote' = remote
         /\ hist'.clones = hist.clones
         /\ handle'.stream = handle.stream
         /\ last'.op = "read" => last'.stream = handle.stream
         /\ last'.op = "close" =>
               last'.err = NoError /\ handle'.state = "closed"
         /\ last'.op = "reenter" /\ handle.state = "open" =>
               last'.err = NoError /\ last'.stream = handle.stream]_vars

\* A read handle on a, whose content is in memory, was closed and entered
\* again: no call was made.
C30_Witness ==
    /\ last.op = "reenter"
    /\ handle.state = "closed"
    /\ handle.path = PathA
    /\ handle.stream.data = <<"x">>
    /\ last.calls = <<>>
    /\ IsFile(wc, WithSuffix(PathA))
    /\ hist.clones = 1

----------------------------------------------------------------------------
(* Two Clients of one repository.  Each holds its own _repo_cache; a clone *)
(* directory is one place on disk, so a Client whose cache points at the   *)
(* directory a call worked in sees what the call left there.               *)

MaxPeerOps == 4     \* calls of the two Clients together in one run

Clients == {1, 2}

\* Client c as it stands: its cache, and the clone the cache points at.
OwnOf(c) ==
    IF c = 1 THEN [_repo_cache |-> client._repo_cache, wc |-> wc, git |-> git]
    ELSE other

\* The record a call of Client c starts from.
BeginOf(c) ==
    [Begin EXCEPT !.cache = OwnOf(c)._repo_cache, !.wc = OwnOf(c).wc,
                  !.git = OwnOf(c).git]

\* The clone directories a call of Client c that ended in m worked in.
DirsOf(c, m) ==
    {OwnOf(c)._repo_cache.clone_path, m.cache.clone_path}
    \ {NoRepo.clone_path}

\* What the peer of the caller holds after the call: its own cache, and in
\* its clone directory whatever is on disk there.
PeerAfter(c, m) ==
    IF OwnOf(3 - c)._repo_cache.clone_path \in DirsOf(c, m)
      THEN [OwnOf(3 - c) EXCEPT !.wc = m.wc, !.git = m.git]
      ELSE OwnOf(3 - c)

\* What the caller holds after the call.
CallerAfter(m) == [_repo_cache |-> m.cache, wc |-> m.wc, git |-> m.git]

\* What Client k holds after a call of Client c that ended in m.
After(k, c, m) == IF k = c THEN CallerAfter(m) ELSE PeerAfter(c, m)

\* The state a call of Client c leaves.
Land(c, m, op, given) ==
    /\ m.clones <= MaxClones
    /\ m.commits <= MaxCommits
    /\ client' = [client EXCEPT !._repo_cache = After(1, c, m)._repo_cache]
    /\ wc' = After(1, c, m).wc
    /\ git' = After(1, c, m).git
    /\ other' = After(2, c, m)
    /\ remote' = m.remote
    /\ hist' = [hist EXCEPT !.clones = m.clones, !.commits = m.commits,
                            !.ops = @ + 1]
    /\ last' = [Observed(m, op, given) EXCEPT
                   !.who = c, !.before = OwnOf(c)._repo_cache]
    /\ UNCHANGED <<handle, fs>>

PeerIdle == hist.ops < MaxPeerOps

\* update(updated_files) on either Client
DoPeerUpdate ==
    /\ PeerIdle
    /\ \E c \in Clients, files \in UploadLists :
         Land(c, Update(BeginOf(c), NoFault, client.temp_path, files, None, None),
              "update",
              [NoLast EXCEPT !.paths = DvcPaths(files),
                             !.contents = SourceContents(files)])

\* remove(removed_files) on either Client
DoPeerRemove ==
    /\ PeerIdle
    /\ \E c \in Clients, paths \in PathLists :
         Land(c, Remove(BeginOf(c), NoFault, client.temp_path, paths, None, None),
              "remove", [NoLast EXCEPT !.paths = paths])

\* exists(path) on either Client
DoPeerExists ==
    /\ PeerIdle
    /\ \E c \in Clients, path \in Paths :
         Land(c, ClientExists(BeginOf(c), NoFault, client.temp_path, path),
              "exists", [NoLast EXCEPT !.paths = <<path>>])

\* scan_dir(path) on either Client
DoPeerScanDir ==
    /\ PeerIdle
    /\ \E c \in Clients, path \in ListPaths :
         Land(c, ClientScanDir(BeginOf(c), NoFault, client.temp_path, path),
              "scan_dir", [NoLast EXCEPT !.scan = path])

\* cleanup() on either Client
DoPeerCleanup ==
    /\ PeerIdle
    /\ \E c \in Clients :
         Land(c, Cleanup(BeginOf(c)), "cleanup", NoLast)

NextTwo ==
    \/ DoPeerUpdate
    \/ DoPeerRemove
    \/ DoPeerExists
    \/ DoPeerScanDir
    \/ DoPeerCleanup

SpecTwo == Init /\ [][NextTwo]_vars

\* Client c made the call of this step.
CallBy(c) == hist'.ops = hist.ops + 1 /\ last'.who = c

Initialised(c) == OwnOf(c)._repo_cache # NoRepo

\* C31: the two Clients never hold the same clone directory; a call of one
\* Client starts from that Client's own cache, clones only when that cache
\* is uninitialised, and leaves the other Client's cache, working copy and
\* clone as they were, cleanup included: after cleanup() on one Client the
\* other is still initialised, with its working copy in place.
C31_SeparateCaches ==
    /\ [](Initialised(1) /\ Initialised(2) =>
            /\ client._repo_cache.clone_path # other._repo_cache.clone_path
            /\ client._repo_cache.temp_dir # other._repo_cache.temp_dir)
    /\ [][\A c \in Clients : CallBy(c) =>
            /\ last'.before = OwnOf(c)._repo_cache
            /\ Initialised(c) => CountCalls(last'.calls, "clone") = 0
            /\ OwnOf(3 - c)' = OwnOf(3 - c)
            /\ last'.op = "cleanup" =>
                 /\ ~Initialised(c)'
                 /\ Initialised(3 - c)' = Initialised(3 - c)]_vars

\* Both Clients were initialised, one wrote a and was cleaned up; the other
\* then answered exists from its own working copy, which never held a.
C31_Witness ==
    /\ last.op = "exists"
    /\ last.who = 2
    /\ last.paths = <<PathA>>
    /\ last.flag = FALSE
    /\ last.err = NoError
    /\ last.calls = <<>>
    /\ Initialised(2)
    /\ ~Initialised(1)
    /\ WithSuffix(PathA) \in DOMAIN remote.tree
    /\ hist.clones = 2

\* A commit this Client made: update and remove write its message.
OwnCommit(cm) ==
    cm.message # <<>> /\ Head(cm.message) \in {UpdatePrefix, RemovePrefix}

\* The pointer files on the Git remote as this Client pushed them: the
\* newest commit of the remote's history that touches the file is its own.
PushedPointers ==
    {q \in DOMAIN remote.tree :
        /\ EndsWithDvc(q)
        /\ \E i \in 1..Len(remote.log) :
             /\ OwnCommit(remote.log[i])
             /\ q \in remote.log[i].touched
             /\ \A j \in 1..(i - 1) : q \notin remote.log[j].touched}

\* The positions of a kind of call among the calls of one operation.
Positions(calls, kind) == {i \in 1..Len(calls) : calls[i].c = kind}

\* C32: every pointer file this Client pushed to the Git remote names a
\* payload that is on the blob remote; and a call of this Client that
\* changes the Git remote ran its blob push before its Git push, and every
\* pointer file it changed there names a payload on the blob remote.
C32_BlobBeforeGit ==
    /\ [](\A q \in PushedPointers : HashIn(remote.tree[q]) \in remote.blobs)
    /\ [][remote'.tree # remote.tree /\ last'.op # "other" =>
            /\ \E i \in Positions(last'.calls, "dvc push") :
                 \A j \in Positions(last'.calls, "git push") : i < j
            /\ \A q \in DOMAIN remote'.tree :
                 (/\ EndsWithDvc(q)
                  /\ (q \notin DOMAIN remote.tree \/ remote.tree[q] # remote'.tree[q]))
                 => HashIn(remote'.tree[q]) \in remote'.blobs]_vars

\* On a repository that tracked nothing, a was updated and its pointer is
\* on the Git remote with its payload on the blob remote; the update of
\* dir/b then failed in its Git phase, and left b's payload on the blob
\* remote with no pointer file in Git.
C32_Witness ==
    /\ StrayFile \notin DOMAIN remote.tree
    /\ last.op = "update"
    /\ last.paths = <<PathB>>
    /\ last.err.type = "DVCGitUpdateError"
    /\ WithSuffix(PathB) \notin DOMAIN remote.tree
    /\ <<"x">> \in remote.blobs
    /\ WithSuffix(PathA) \in PushedPointers
    /\ remote.tree[WithSuffix(PathA)] = PointerFor(<<"CR">>)
    /\ <<"CR">> \in remote.blobs

\* The calls that change the clone's index or history, the Git remote or
\* the blob remote, or that track and untrack.
WritingCalls ==
    {"dvc add", "dvc remove", "dvc push", "index.add", "index.remove",
     "commit", "git push"}

\* The last call was one of the read-side operations.
ReadSide ==
    \/ last.op \in {"exists", "download", "scan_dir", "list_files",
                    "modified_date"}
    \/ last.op \in {"open", "read", "close", "reenter"} /\ last.mode \in ReadModes

\* C33: exists, get opened in a read mode (with the reads and the close of
\* its handle), download, scan_dir, list_files and modified_date make no
\* executor add or remove, no blob push, no index add or remove, no commit
\* and no Git push, and leave the Git remote and the blob remote as they
\* were, whether they return or raise.
C33_ReadSideFrame ==
    [][ReadSide' =>
          /\ \A i \in 1..Len(last'.calls) : last'.calls[i].c \notin WritingCalls
          /\ remote' = remote
          /\ git'.log = git.log \/ CountCalls(last'.calls, "clone") = 1
          /\ hist'.commits = hist.commits]_vars

\* Three read-side calls in a row, the last a download that pulled a
\* payload: the remote still holds its first commit only.
C33_Witness ==
    /\ last.op = "download"
    /\ last.err = NoError
    /\ CountCalls(last.calls, "dvc pull") >= 1
    /\ Len(last.delivered) >= 1
    /\ hist.ops = 3
    /\ hist.commits = 1
    /\ Len(git.log) = 1
    /\ remote.log = FirstCommit(remote.tree)

\* The pointer files of a working copy, with what they hold.
PointerMap(w) == [q \in {x \in DOMAIN w.files : EndsWithDvc(x)} |-> w.files[q]]

GitPhaseFailed ==
    last.op \in {"update", "close"} /\ last.err.type = "DVCGitUpdateError"

\* The call of this step is exists(p) / scan_dir of p's directory, and
\* nothing failed in it.
ExistsNext(p) ==
    last'.op = "exists" /\ last'.paths = <<p>> /\ last'.fault = None

ScansNext(p) ==
    /\ last'.op = "scan_dir"
    /\ last'.fault = None
    /\ JoinClone(StripLeadingSep(last'.scan)) = Dirname(p)

ListsFile(entries, p) ==
    \E i \in 1..Len(entries) : entries[i].path = p /\ ~entries[i].is_dir

\* After a DVCGitUpdateError the pointer file and the payload of every path
\* of the batch are in the working copy, and the next call on the Client
\* reports the path: exists(p) returns True, scan_dir of its directory
\* lists it, whether or not the Git remote holds the pointer file.
KeptAfterGitError ==
    [][GitPhaseFailed =>
         \A p \in Range(last.paths) :
           /\ IsFile(wc, p)
           /\ IsFile(wc, WithSuffix(p))
           /\ ExistsNext(p) => last'.err = NoError /\ last'.flag = TRUE
           /\ ScansNext(p) =>
                last'.err = NoError /\ ListsFile(last'.entries, p)]_vars

\* C35 as stated: the above, and exists(p) is decided by the local pointer
\* file alone.
C35_AsStated ==
    /\ KeptAfterGitError
    /\ [][last'.op = "exists" /\ last'.err = NoError =>
            last'.flag = IsFile(wc', WithSuffix(last'.paths[1]))]_vars

\* C35: after a DVCGitUpdateError the paths of the batch stay in the working
\* copy and the next exists(p) is True and the next scan_dir lists p,
\* whatever the Git remote holds; exists is decided in the clone, by the
\* local pointer file together with a payload file next to it once the pull
\* has returned.
C35_LocalAfterGitError ==
    /\ KeptAfterGitError
    /\ [][last'.op = "exists" /\ last'.err = NoError =>
            last'.flag = (/\ IsFile(wc', WithSuffix(last'.paths[1]))
                          /\ IsFile(wc', last'.paths[1]))]_vars

\* update([a]) raised DVCGitUpdateError and exists(a) then returned True,
\* while the Git remote has no pointer file for a.
C35_Witness ==
    /\ last.op = "exists"
    /\ last.paths = <<PathA>>
    /\ last.flag = TRUE
    /\ last.err = NoError
    /\ hist.faults = 1
    /\ hist.ops = 2
    /\ hist.commits <= 2
    /\ WithSuffix(PathA) \notin DOMAIN remote.tree
    /\ IsFile(wc, WithSuffix(PathA))
    /\ WithSuffix(PathA) \notin DOMAIN git.head \/ git.log # remote.log

----------------------------------------------------------------------------
(* Handles in every mode: get(path, mode=...) entered, written to and      *)
(* closed.                                                                 *)

\* The modes a handle is opened with: the four the code tests for, "w" and
\* "a".
AllModes == {"r", "rb", "r+", "rb+", "w", "a"}

\* (mode, empty_fallback) given to get.
ModeArgs == {<<mode, FALSE>> : mode \in AllModes} \cup {<<"r+", TRUE>>}

\* with client.get(path, empty_fallback, mode) as f, in any of the modes.
DoOpenMode ==
    /\ Idle
    /\ \E path \in Paths, arg \in ModeArgs, fault \in Faults \cup {NoFault} :
         Finish(Enter(Begin, fault, DVCFile(path, arg[2], arg[1])), fault,
                "open",
                [NoLast EXCEPT !.paths = <<path>>, !.mode = arg[1],
                               !.empty_fallback = arg[2]],
                IF arg[1] \in ReadModes THEN {} ELSE {path}, "unknown",
                DVCFile(path, arg[2], arg[1]))

\* io.StringIO / io.BytesIO write at position pos: the content goes over
\* what the stream held from there on.
StreamWrite(data, pos, content) ==
    SubSeq(data, 1, pos) \o content
    \o SubSeq(data, pos + Len(content) + 1, Len(data))

\* f.write(content) on the descriptor of an open read handle that was not
\* read from: the stream in memory takes it where the earlier writes ended.
DoWriteStream ==
    /\ handle.state = "open"
    /\ handle.mode \in ReadModes
    /\ handle.writes < MaxWrites
    /\ \E content \in InputContents \ {<<>>} :
         /\ handle' = [handle EXCEPT
                          !.stream.data = StreamWrite(@, Len(handle.wrote), content),
                          !.wrote = @ \o content, !.writes = @ + 1]
         /\ last' = [NoLast EXCEPT !.op = "write", !.paths = <<handle.path>>,
                                   !.mode = handle.mode,
                                   !.contents = <<content>>,
                                   !.before = client._repo_cache]
         /\ UNCHANGED <<client, wc, git, remote, hist, other, fs>>

NextModes ==
    \/ DoOpenMode
    \/ DoWriteStream
    \/ DoWrite
    \/ DoClose

SpecModes == Init /\ [][NextModes]_vars

\* C36: an open that returns took the read branch (a stream in memory, no
\* staging file opened) exactly when the mode is r, rb, r+ or rb+, and the
\* write branch for every other mode.  Writing to a read handle changes the
\* stream alone.  Closing a read handle, r+ and rb+ included, makes no call
\* at all and leaves the clone and both remotes as they were; closing any
\* other handle runs update, which starts with the executor's add.
C36_ReadModes ==
    /\ [][last'.op = "open" /\ last'.err = NoError =>
            /\ (last'.mode \in {"r", "rb", "r+", "rb+"})
                 = (last'.stream # NoStream)
            /\ (last'.mode \in {"r", "rb", "r+", "rb+"})
                 = (CountCalls(last'.calls, "open") = 0)]_vars
    /\ [][last'.op = "write" /\ handle.mode \in {"r", "rb", "r+", "rb+"} =>
            /\ handle'.stream.data
                 = StreamWrite(handle.stream.data, Len(handle.wrote),
                               last'.contents[1])
            /\ UNCHANGED <<wc, git, remote>>]_vars
    /\ [][last'.op = "close" =>
            IF handle.mode \in {"r", "rb", "r+", "rb+"}
              THEN /\ last'.calls = <<>>
                   /\ last'.err = NoError
                   /\ handle'.stream = handle.stream
                   /\ UNCHANGED <<client, wc, git, remote>>
              ELSE /\ CountCalls(last'.shell, "dvc version") >= 1
                   /\ last'.fault \notin VersionFaultKinds =>
                        CountCalls(last'.calls, "dvc add") = 1]_vars

\* A handle opened with r+ on a tracked path was written to and closed: the
\* written characters are in its stream, the close made no call, and the
\* Git remote holds its first commit only.
C36_Witness ==
    /\ last.op = "close"
    /\ last.mode = "r+"
    /\ last.calls = <<>>
    /\ handle.state = "closed"
    /\ handle.wrote # <<>>
    /\ handle.stream.data # <<>>
    /\ SubSeq(handle.stream.data, 1, Len(handle.wrote)) = handle.wrote
    /\ remote.log = FirstCommit(remote.tree)
    /\ hist.commits = 1

----------------------------------------------------------------------------
(* scan_dir over every path string, those that leave the clone included.   *)

\* Path strings given to scan_dir: those of ScanPaths, and "//", "//etc"
\* and "..".
ScanAnyPaths ==
    ScanPaths \cup {<<Sep, Sep>>, <<Sep, Sep, <<"etc">> >>, <<Up>>}

\* client.scan_dir(path)
DoScanAny ==
    /\ Idle
    /\ \E path \in ScanAnyPaths, fault \in Faults \cup {NoFault} :
         Finish(ClientScanDir(Begin, fault, client.temp_path, path), fault,
                "scan_dir", [NoLast EXCEPT !.scan = path],
                {}, None, NoHandle)

NextScan ==
    \/ DoScanAny
    \/ DoUpdate
    \/ DoRemove
    \/ DoCleanup

SpecScan == Init /\ [][NextScan]_vars

\* An entry names a location in the working copy: a directory, or a path
\* whose pointer file is there.
InsideClone(entry) ==
    /\ \A i \in 1..Len(entry.path) : entry.path[i] \notin {Up, Dot, Sep}
    /\ IF entry.is_dir THEN IsDir(wc, entry.path)
       ELSE IsFile(wc, WithSuffix(entry.path))

\* C37: whenever scan_dir returns, the directory it listed lies within the
\* clone and every entry's relative path names a location in the working
\* copy.
C37_StaysInClone ==
    last.op = "scan_dir" /\ last.err = NoError =>
      /\ Locate(StripLeadingSep(last.scan)).where = "clone"
      /\ \A i \in 1..Len(last.entries) : InsideClone(last.entries[i])

----------------------------------------------------------------------------
(* DVCFS (fs/dvcfs.py): the filesystem adapter over a Client, its          *)
(* temporary directory and its clean-up.                                   *)

\* DVCFS(dvc_repo, temp_dir, auto_clean, ignore_clean_errors): mkdtemp makes
\* the temporary directory and the Client gets it as its temp_path.
Adapters ==
    [made : {TRUE}, _cleaned : {FALSE}, _auto_clean : BOOLEAN,
     _ignore_clean_errors : BOOLEAN, _temp_dir : TempPaths, on_disk : {TRUE},
     closed : {FALSE}]

InitFS == InitClient /\ fs \in Adapters /\ fs._temp_dir = client.temp_path

\* A call on the adapter in progress: the adapter and the record of the
\* Client calls it makes.
BeginFS == [fs |-> fs, m |-> Begin]

\* A variant of clean without the test of the flag.
CleanEveryTime(a, fails) ==
    IF fails /\ ~a.fs._ignore_clean_errors
      THEN [a EXCEPT !.m = Raise(Call(Call(Cleanup(@), "client.cleanup", <<>>),
                                      "rmtree", <<>>),
                                 Error("OperationFailed", None, <<>>, "rmtree"))]
      ELSE [a EXCEPT !.m = Call(Call(Cleanup(@), "client.cleanup", <<>>),
                                "rmtree", <<>>),
                     !.fs._cleaned = TRUE,
                     !.fs.on_disk = @ /\ fails]

\* DVCFS.clean: nothing when the flag is set; else the Client's cleanup,
\* then shutil.rmtree of the temporary directory.  When rmtree fails the
\* error is raised as OperationFailed unless ignore_clean_errors is set;
\* the flag is set when the method gets to its last line.
Clean(a, fails) ==
    IF a.fs._cleaned THEN a
    ELSE IF fails /\ ~a.fs._ignore_clean_errors
      THEN [a EXCEPT !.m = Raise(Call(Call(Cleanup(@), "client.cleanup", <<>>),
                                      "rmtree", <<>>),
                                 Error("OperationFailed", None, <<>>, "rmtree"))]
    ELSE [a EXCEPT !.m = Call(Call(Cleanup(@), "client.cleanup", <<>>),
                              "rmtree", <<>>),
                   !.fs._cleaned = TRUE,
                   !.fs.on_disk = @ /\ fails]

\* super().close() of the base filesystem.
BaseClose(a) == IF Raised(a.m) THEN a ELSE [a EXCEPT !.fs.closed = TRUE]

\* DVCFS.close: clean when auto_clean is set, then the base class's close.
Close(a, fails) ==
    BaseClose(IF a.fs._auto_clean THEN Clean(a, fails) ELSE a)

\* rmtree may fail while the run's budget of faults lasts.
RmtreeFails == IF hist.faults < MaxFaults THEN BOOLEAN ELSE {FALSE}

\* The state a call on the adapter leaves; a failure of rmtree counts only
\* when rmtree ran.
LandFS(a, fails, op) ==
    /\ fails => CountCalls(a.m.calls, "rmtree") = 1
    /\ fs' = a.fs
    /\ client' = [client EXCEPT !._repo_cache = a.m.cache]
    /\ wc' = a.m.wc
    /\ git' = a.m.git
    /\ hist' = [hist EXCEPT !.ops = @ + 1,
                            !.live = IF a.m.cache = NoRepo THEN 0 ELSE @,
                            !.faults = IF fails THEN @ + 1 ELSE @]
    /\ last' = [Observed(a.m, op, NoLast) EXCEPT
                   !.fault = IF fails THEN "rmtree" ELSE None]
    /\ handle' = NoHandle
    /\ UNCHANGED <<remote, other>>

\* fs.clean()
DoFsClean ==
    /\ Idle
    /\ \E fails \in RmtreeFails : LandFS(Clean(BeginFS, fails), fails, "clean")

\* fs.close(); a closed filesystem may be closed again.
DoFsClose ==
    /\ Idle
    /\ \E fails \in RmtreeFails : LandFS(Close(BeginFS, fails), fails, "close")

\* fs.exists(path): self._client.exists(path), while the temporary
\* directory is there.
DoFsExists == fs.on_disk /\ ~fs._cleaned /\ DoExists

\* fs.listdir(path): self._client.list_files(path)
DoFsListdir == fs.on_disk /\ ~fs._cleaned /\ DoListFiles

NextFS ==
    \/ DoFsClean
    \/ DoFsClose
    \/ DoFsExists
    \/ DoFsListdir

SpecFS == InitFS /\ [][NextFS]_vars

\* What a clean that finds the flag unset does: the Client's cleanup and
\* rmtree, in this order; the flag is set and the directory gone when
\* rmtree succeeds; when it fails, OperationFailed with the flag left unset
\* unless errors are ignored, and then the flag is set over a directory
\* that is still there.
CleansNow ==
    /\ last'.calls = <<CallRec("client.cleanup", <<>>), CallRec("rmtree", <<>>)>>
    /\ client'._repo_cache = NoRepo
    /\ IF last'.fault # "rmtree"
         THEN last'.err = NoError /\ fs'._cleaned /\ ~fs'.on_disk
       ELSE IF fs._ignore_clean_errors
         THEN last'.err = NoError /\ fs'._cleaned /\ fs'.on_disk
       ELSE /\ last'.err.type = "OperationFailed"
            /\ ~fs'._cleaned
            /\ fs'.on_disk

\* A call that does nothing to the Client or the directory.
DoesNothing ==
    /\ last'.calls = <<>>
    /\ last'.err = NoError
    /\ fs'._cleaned = fs._cleaned
    /\ fs'.on_disk = fs.on_disk
    /\ UNCHANGED <<client, wc, git, remote>>

\* C38: clean() does nothing once the flag is set, and otherwise cleans as
\* above, so that a clean after a raised failure cleans again; the flag is
\* never unset; close() cleans exactly when auto_clean is set and then
\* closes, unless the clean raised.
C38_CleanOnce ==
    /\ [][fs._cleaned => fs'._cleaned]_vars
    /\ [][last'.op = "clean" =>
            IF fs._cleaned THEN DoesNothing /\ fs' = fs ELSE CleansNow]_vars
    /\ [][last'.op = "close" =>
            /\ IF fs._auto_clean /\ ~fs._cleaned THEN CleansNow ELSE DoesNothing
            /\ fs'.closed = (last'.err = NoError)]_vars

\* The adapter was used, a first clean failed and raised, a second clean
\* went through: the cache is disposed of, the directory is gone and the
\* flag is set.
C38_Witness ==
    /\ last.op = "clean"
    /\ last.err = NoError
    /\ last.fault = None
    /\ Len(last.calls) = 2
    /\ fs._cleaned
    /\ ~fs.on_disk
    /\ ~fs._ignore_clean_errors
    /\ hist.faults = 1
    /\ hist.clones = 1
    /\ hist.ops = 3
    /\ client._repo_cache = NoRepo

============================================================================
